---- MODULE Spec2Model ----
(***************************************************************************)
(* Stock price alerts: the monitoring engine.                              *)
(*                                                                         *)
(*   scheduler.ts        startScheduler / checkPrices (one cycle)          *)
(*   db.ts               the alerts table: getEnabledAlerts, rowToAlert,   *)
(*                       updateLastNotified                                *)
(*   price-fetcher.ts    fetchPrices with the single process-wide cache    *)
(*   alert-evaluator.ts  evaluateAlerts / isInCooldown (pure)              *)
(*   notifier.ts         notify: per crossing e-mail, SMS, cooldown write  *)
(*                                                                         *)
(* Every await of the code is a point where another cycle may run, so a    *)
(* cycle is a small process whose pc names the await it is suspended on.   *)
(* Times are epoch milliseconds, as Date.now() and Date.getTime() give     *)
(* them; an ISO string produced by toISOString() and parsed back by        *)
(* new Date() is the same millisecond, so a timestamp is kept as that      *)
(* number.                                                                 *)
(***************************************************************************)
EXTENDS Integers, Sequences, FiniteSets, TLC

VARIABLES
    clock,      \* Date.now()
    started,    \* startScheduler has been called
    alive,      \* the node process has not been terminated
    store,      \* rows of the alerts table, in SELECT order
    market,     \* upstream: symbol -> regularMarketPrice, steady while the model runs
    cache,      \* price-fetcher.ts module variable `cache`
    cycles,     \* the checkPrices invocations: 0 is the startup run
    nextCycle,  \* number of checkPrices invocations so far
    lastTick,   \* clock value of the last cron firing
    channels,   \* the configured channels: isEmailConfigured / isSmsConfigured
    ev,         \* a direct call of evaluateAlerts: input and result
    fx,         \* a caller of fetchPrices outside the scheduler: the call in progress
    edits,      \* number of writes the alert routes have made to the store
    api,        \* the HTTP server: users table, sessions, the last response
    loginAttempts,  \* server.ts module variable `loginAttempts`: IP -> count and resetAt
    dbc         \* a direct call of a db.ts function: arguments, table before, result

vars ==
    <<clock, started, alive, store, market, cache, cycles, nextCycle, lastTick, channels, ev, fx,
      edits, api, loginAttempts, dbc>>

\* undefined / null / SQL NULL: no price, no timestamp
None == 0 - 1

\* price-fetcher.ts:5: let cache = null
NoCache == [data |-> <<>>, symbols |-> <<>>, ts |-> None]

\* ------------------------------------------------------------------ bounds
MaxCycles == 2
MaxSteps == 1
MaxEvalAlerts == 2
MaxEvalPrices == 2
MaxPrice == 3
MaxFetchCalls == 3
MaxFetchSteps == 3
MaxStoreEdits == 1
MaxRequests == 4
MaxDbCalls == 2
MaxAuthRequests == 12
MaxSharedCalls == 1
MaxLimitSteps == 4

\* ------------------------------------------------------- program constants
\* config.cooldownMinutes: Number(process.env.COOLDOWN_MINUTES || 60)
cooldownMinutes == 60
\* price-fetcher.ts: const CACHE_TTL_MS = 30_000
CACHE_TTL_MS == 30000
\* config.checkIntervalCron default "*/5 * * * *": a firing every 5 minutes
CronIntervalMs == 5 * 60 * 1000
\* server.ts:337-338
RATE_LIMIT_WINDOW_MS == 15 * 60 * 1000
RATE_LIMIT_MAX == 10

\* granularity of the passage of time in the model: half a cache TTL
StepMs == CACHE_TTL_MS \div 2
\* the scheduler is started one step before a cron boundary
StartClock == CronIntervalMs - StepMs
MaxClock == StartClock + MaxSteps * StepMs

\* --------------------------------------------------------------- the data
AlertIds == <<"a1", "a2">>
\* users.id; the alerts the scheduler runs on belong to the first user
UserIds == <<"u1", "u2">>
Symbols == {"AAPL", "MSFT"}
Prices == 1..MaxPrice
\* the threshold the alerts use: prices exist below it, at it and above it
Threshold == MaxPrice - 1
Directions == {"above", "below"}
Channels == {"email", "sms"}
CycleIds == 0..(MaxCycles - 1)

\* Array.prototype.sort() with no comparator orders strings by their UTF-16
\* code units: the symbols of the model in that order
SortedSymbols == <<"AAPL", "MSFT">>

SortRank(sym) == CHOOSE r \in 1..Len(SortedSymbols) : SortedSymbols[r] = sym

RECURSIVE sort(_)
sort(list) ==
    IF Len(list) = 0 THEN <<>>
    ELSE LET least == CHOOSE k \in 1..Len(list) :
                          \A j \in 1..Len(list) : SortRank(list[k]) <= SortRank(list[j])
             rest == [j \in 1..(Len(list) - 1) |-> IF j < least THEN list[j] ELSE list[j + 1]]
         IN  <<list[least]>> \o sort(rest)

\* [...symbols].sort().join(","): symbols hold no comma (server.ts:590 splits
\* on commas), so the joined string is represented by the sorted list itself
CacheKey(symbols) == sort(symbols)

cacheHit_inclusiveTtl(entry, symbols, now) ==
    /\ entry # NoCache
    /\ entry.symbols = CacheKey(symbols)
    /\ now - entry.ts <= CACHE_TTL_MS

cacheHit_orderSensitive(entry, symbols, now) ==
    /\ entry # NoCache
    /\ entry.symbols = symbols
    /\ now - entry.ts < CACHE_TTL_MS

cacheHit_noExpiry(entry, symbols, now) ==
    /\ entry # NoCache
    /\ entry.symbols = CacheKey(symbols)

cacheHit_anyKey(entry, symbols, now) ==
    /\ entry # NoCache
    /\ now - entry.ts < CACHE_TTL_MS

\* price-fetcher.ts:33: cache && cache.symbols === key && Date.now() - cache.ts < CACHE_TTL_MS
cacheHit(entry, symbols, now) ==
    /\ entry # NoCache
    /\ entry.symbols = CacheKey(symbols)
    /\ now - entry.ts < CACHE_TTL_MS

cacheEntry_sharedList(results, symbols, now) ==
    [data |-> cache.data \o results, symbols |-> CacheKey(symbols), ts |-> now]

\* price-fetcher.ts:48 / :107: cache = { data: results, symbols: key, ts: Date.now() }
cacheEntry(results, symbols, now) ==
    [data |-> results, symbols |-> CacheKey(symbols), ts |-> now]

\* ----------------------------------------------------- alert-evaluator.ts
isInCooldown_strictBoundary(alert, direction, cdMinutes, now) ==
    LET timestamp == IF direction = "above" THEN alert.lastNotifiedAboveAt
                                            ELSE alert.lastNotifiedBelowAt
    IN  IF timestamp = None THEN FALSE
        ELSE (now - timestamp) <= cdMinutes * 60 * 1000

isInCooldown_sharedTimestamp(alert, direction, cdMinutes, now) ==
    LET timestamp == IF alert.lastNotifiedAboveAt # None THEN alert.lastNotifiedAboveAt
                                                         ELSE alert.lastNotifiedBelowAt
    IN  IF timestamp = None THEN FALSE
        ELSE (now - timestamp) < cdMinutes * 60 * 1000

isInCooldown(alert, direction, cdMinutes, now) ==
    LET timestamp == IF direction = "above" THEN alert.lastNotifiedAboveAt
                                            ELSE alert.lastNotifiedBelowAt
    IN  IF timestamp = None THEN FALSE
        ELSE (now - timestamp) < cdMinutes * 60 * 1000

\* new Map(prices.map(p => [p.symbol, p])): the last entry of a symbol wins
priceMapHas(prices, symbol) == \E k \in 1..Len(prices) : prices[k].symbol = symbol

priceMapGet_first(prices, symbol) ==
    LET k == CHOOSE i \in 1..Len(prices) :
                 /\ prices[i].symbol = symbol
                 /\ \A j \in 1..(i - 1) : prices[j].symbol # symbol
    IN  prices[k]

priceMapGet(prices, symbol) ==
    LET k == CHOOSE i \in 1..Len(prices) :
                 /\ prices[i].symbol = symbol
                 /\ \A j \in (i + 1)..Len(prices) : prices[j].symbol # symbol
    IN  prices[k]

Crossing_alwaysAbove(alert, price, direction, threshold) ==
    [alert |-> alert, currentPrice |-> price, direction |-> "above", threshold |-> threshold]

Crossing(alert, price, direction, threshold) ==
    [alert |-> alert, currentPrice |-> price, direction |-> direction, threshold |-> threshold]

\* the body of the for loop: the crossings pushed for one alert
evaluateOne_belowFirst(alert, prices, cdMinutes, now) ==
    IF ~priceMapHas(prices, alert.symbol) THEN <<>>
    ELSE LET priceData == priceMapGet(prices, alert.symbol)
         IN  (IF /\ alert.belowPrice # None
                 /\ priceData.price <= alert.belowPrice
                 /\ ~isInCooldown(alert, "below", cdMinutes, now)
              THEN <<Crossing(alert, priceData.price, "below", alert.belowPrice)>>
              ELSE <<>>)
             \o
             (IF /\ alert.abovePrice # None
                 /\ priceData.price >= alert.abovePrice
                 /\ ~isInCooldown(alert, "above", cdMinutes, now)
              THEN <<Crossing(alert, priceData.price, "above", alert.abovePrice)>>
              ELSE <<>>)

evaluateOne_strictCompare(alert, prices, cdMinutes, now) ==
    IF ~priceMapHas(prices, alert.symbol) THEN <<>>
    ELSE LET priceData == priceMapGet(prices, alert.symbol)
         IN  (IF /\ alert.abovePrice # None
                 /\ priceData.price > alert.abovePrice
                 /\ ~isInCooldown(alert, "above", cdMinutes, now)
              THEN <<Crossing(alert, priceData.price, "above", alert.abovePrice)>>
              ELSE <<>>)
             \o
             (IF /\ alert.belowPrice # None
                 /\ priceData.price < alert.belowPrice
                 /\ ~isInCooldown(alert, "below", cdMinutes, now)
              THEN <<Crossing(alert, priceData.price, "below", alert.belowPrice)>>
              ELSE <<>>)

evaluateOne_anySample(alert, prices, cdMinutes, now) ==
    IF Len(prices) = 0 THEN <<>>
    ELSE LET priceData == IF priceMapHas(prices, alert.symbol)
                          THEN priceMapGet(prices, alert.symbol) ELSE prices[Len(prices)]
         IN  (IF /\ alert.abovePrice # None
                 /\ priceData.price >= alert.abovePrice
                 /\ ~isInCooldown(alert, "above", cdMinutes, now)
              THEN <<Crossing(alert, priceData.price, "above", alert.abovePrice)>>
              ELSE <<>>)
             \o
             (IF /\ alert.belowPrice # None
                 /\ priceData.price <= alert.belowPrice
                 /\ ~isInCooldown(alert, "below", cdMinutes, now)
              THEN <<Crossing(alert, priceData.price, "below", alert.belowPrice)>>
              ELSE <<>>)

evaluateOne(alert, prices, cdMinutes, now) ==
    IF ~priceMapHas(prices, alert.symbol) THEN <<>>
    ELSE LET priceData == priceMapGet(prices, alert.symbol)
         IN  (IF /\ alert.abovePrice # None
                 /\ priceData.price >= alert.abovePrice
                 /\ ~isInCooldown(alert, "above", cdMinutes, now)
              THEN <<Crossing(alert, priceData.price, "above", alert.abovePrice)>>
              ELSE <<>>)
             \o
             (IF /\ alert.belowPrice # None
                 /\ priceData.price <= alert.belowPrice
                 /\ ~isInCooldown(alert, "below", cdMinutes, now)
              THEN <<Crossing(alert, priceData.price, "below", alert.belowPrice)>>
              ELSE <<>>)

RECURSIVE evaluateAlerts(_, _, _, _)
evaluateAlerts(alerts, prices, cdMinutes, now) ==
    IF alerts = <<>> THEN <<>>
    ELSE evaluateOne(Head(alerts), prices, cdMinutes, now)
         \o evaluateAlerts(Tail(alerts), prices, cdMinutes, now)

\* ------------------------------------------------------------------ db.ts
\* SQL NULL in the TEXT column notes: a value no request string equals
NullNotes == "<null>"

\* A row of the alerts table (ALERT_COLUMNS): the only cooldown column is
\* last_notified_at.
Row(id, symbol, above, below, enabled, lastNotifiedAt) ==
    [id |-> id, userId |-> UserIds[1], symbol |-> symbol,
     abovePrice |-> above, belowPrice |-> below, notes |-> NullNotes,
     enabled |-> enabled, lastNotifiedAt |-> lastNotifiedAt]

\* rowToAlert copies lastNotifiedAt and sets neither lastNotifiedAboveAt nor
\* lastNotifiedBelowAt: both are undefined in the StockAlert it returns.
rowToAlert_perDirection(row) ==
    [id |-> row.id, symbol |-> row.symbol,
     abovePrice |-> row.abovePrice, belowPrice |-> row.belowPrice,
     enabled |-> row.enabled, lastNotifiedAt |-> row.lastNotifiedAt,
     lastNotifiedAboveAt |-> row.lastNotifiedAt, lastNotifiedBelowAt |-> row.lastNotifiedAt]

rowToAlert(row) ==
    [id |-> row.id, symbol |-> row.symbol,
     abovePrice |-> row.abovePrice, belowPrice |-> row.belowPrice,
     enabled |-> row.enabled, lastNotifiedAt |-> row.lastNotifiedAt,
     lastNotifiedAboveAt |-> None, lastNotifiedBelowAt |-> None]

getEnabledAlerts_all(rows) == [k \in DOMAIN rows |-> rowToAlert(rows[k])]

RECURSIVE getEnabledAlerts(_)
getEnabledAlerts(rows) ==
    IF rows = <<>> THEN <<>>
    ELSE (IF Head(rows).enabled THEN <<rowToAlert(Head(rows))>> ELSE <<>>)
         \o getEnabledAlerts(Tail(rows))

\* INSERT INTO alerts ...: enabled defaults to true, last_notified_at to NULL
addAlert(rows, id, userId, symbol, above, below) ==
    Append(rows, [Row(id, symbol, above, below, TRUE, None) EXCEPT !.userId = userId])

\* DELETE FROM alerts WHERE id = $1 AND user_id = $2
removeAlert(rows, id, userId) ==
    SelectSeq(rows, LAMBDA row : ~(row.id = id /\ row.userId = userId))

\* UPDATE alerts SET enabled = $1 WHERE id = $2 AND user_id = $3
setAlertEnabled(rows, id, userId, enabled) ==
    [k \in DOMAIN rows |->
        IF rows[k].id = id /\ rows[k].userId = userId
        THEN [rows[k] EXCEPT !.enabled = enabled] ELSE rows[k]]

updateAlertNotes_anyUser(rows, id, userId, notes) ==
    [k \in DOMAIN rows |->
        IF rows[k].id = id THEN [rows[k] EXCEPT !.notes = notes] ELSE rows[k]]

\* UPDATE alerts SET notes = $1 WHERE id = $2 AND user_id = $3
updateAlertNotes(rows, id, userId, notes) ==
    [k \in DOMAIN rows |->
        IF rows[k].id = id /\ rows[k].userId = userId
        THEN [rows[k] EXCEPT !.notes = notes] ELSE rows[k]]

updateAlertThresholds_keepsOmitted(rows, id, userId, above, below) ==
    [k \in DOMAIN rows |->
        IF rows[k].id = id /\ rows[k].userId = userId
        THEN [rows[k] EXCEPT !.abovePrice = IF above = None THEN @ ELSE above,
                             !.belowPrice = IF below = None THEN @ ELSE below]
        ELSE rows[k]]

\* UPDATE alerts SET above_price = $1, below_price = $2 WHERE id = $3 AND user_id = $4
updateAlertThresholds(rows, id, userId, above, below) ==
    [k \in DOMAIN rows |->
        IF rows[k].id = id /\ rows[k].userId = userId
        THEN [rows[k] EXCEPT !.abovePrice = above, !.belowPrice = below] ELSE rows[k]]

\* rowCount > 0 of an UPDATE or DELETE ... WHERE id = $1 AND user_id = $2
rowMatched(rows, id, userId) ==
    \E k \in 1..Len(rows) : rows[k].id = id /\ rows[k].userId = userId

updateLastNotified_disables(rows, id, now) ==
    [k \in DOMAIN rows |->
        IF rows[k].id = id THEN [rows[k] EXCEPT !.lastNotifiedAt = now, !.enabled = FALSE]
        ELSE rows[k]]

\* UPDATE alerts SET last_notified_at = now() WHERE id = $1
updateLastNotified(rows, id, now) ==
    [k \in DOMAIN rows |->
        IF rows[k].id = id THEN [rows[k] EXCEPT !.lastNotifiedAt = now] ELSE rows[k]]

\* ----------------------------------------------------------- scheduler.ts
\* [...new Set(alerts.map(a => a.symbol))]: first occurrences, in order
symbolsOf_keepDuplicates(alerts, seen) == [k \in DOMAIN alerts |-> alerts[k].symbol]

RECURSIVE symbolsOf(_, _)
symbolsOf(alerts, seen) ==
    IF alerts = <<>> THEN <<>>
    ELSE IF Head(alerts).symbol \in seen THEN symbolsOf(Tail(alerts), seen)
         ELSE <<Head(alerts).symbol>> \o symbolsOf(Tail(alerts), seen \cup {Head(alerts).symbol})

IdleCycle ==
    [pc |-> "idle", after |-> {},
     alerts |-> <<>>, symbols |-> <<>>, k |-> 0, results |-> <<>>, upstreamError |-> FALSE,
     prices |-> <<>>, triggered |-> <<>>, i |-> 0, attempts |-> <<>>, writes |-> <<>>]

Finished(c) == cycles[c].pc \in {"done", "rejected"}
Running(c) == cycles[c].pc \notin {"idle", "done", "rejected"}

\* checkPrices() is called: it runs up to `await getEnabledAlerts()`
BeginCycle(c) ==
    [IdleCycle EXCEPT !.pc = "load",
                      !.after = {d \in CycleIds : Finished(d)}]

NoEval == [phase |-> "off", alerts |-> <<>>, prices |-> <<>>, now |-> 0, result |-> <<>>]

\* the first await of notify's loop body for one crossing
notifyEntry_writeFirst == "update"

notifyEntry ==
    IF "email" \in channels THEN "email"
    ELSE IF "sms" \in channels THEN "sms"
    ELSE "update"

\* req.session.userId of a request without a session
NoUser == ""

\* the browsers that talk to the server, each with its own session cookie
Clients == {"c1", "c2"}

NoResponse == [route |-> "", client |-> "", status |-> 0, queries |-> 0, fetches |-> 0, body |-> <<>>]

\* the key of rateLimitAuth is req.ip: each browser has an address of its own
NoEntry == [count |-> 0, resetAt |-> None]

\* server.ts:336: new Map()
NoAttempts == [c \in Clients |-> NoEntry]

\* no function of db.ts has been called directly
NoDbCall ==
    [op |-> "", id |-> "", userId |-> "", args |-> <<>>, before |-> <<>>, result |-> FALSE, n |-> 0]

\* the server has answered no request: no user, no session
IdleApi ==
    [users |-> <<>>, session |-> [c \in Clients |-> NoUser], n |-> 0, last |-> NoResponse]

\* no call of fetchPrices from outside the scheduler has been made
IdleFetch ==
    [variant |-> "chart", pc |-> "idle", n |-> 0,
     symbols |-> <<>>, at |-> None, before |-> NoCache,
     k |-> 0, results |-> <<>>, attempt |-> 0, quotes |-> <<>>,
     calls |-> 0, waits |-> <<>>, failures |-> {},
     data |-> <<>>, endAt |-> None]

\* ------------------------------------------------------------------- Init
\* The alerts table when the scheduler starts: a1 watches AAPL in both
\* directions at the same threshold, a2 watches either symbol for a rise to
\* the next price and may not exist yet; either may be disabled.  No alert has been notified yet.
InitialStores ==
    {<<Row(AlertIds[1], "AAPL", Threshold, Threshold, en1, None),
       Row(AlertIds[2], sym, Threshold + 1, None, en2, None)>> :
        sym \in Symbols, en1 \in BOOLEAN, en2 \in BOOLEAN}
    \cup {<<Row(AlertIds[1], "AAPL", Threshold, Threshold, TRUE, None)>>}

InitialMarkets == {m \in [Symbols -> Prices] : m["MSFT"] = Threshold}

Init ==
    /\ clock = StartClock
    /\ started = FALSE
    /\ alive = TRUE
    /\ store \in InitialStores
    /\ market \in InitialMarkets
    /\ cache = NoCache
    /\ cycles = [c \in CycleIds |-> IdleCycle]
    /\ nextCycle = 0
    /\ lastTick = None
    /\ channels \in SUBSET Channels
    /\ ev = NoEval
    /\ fx = IdleFetch
    /\ edits = 0
    /\ api = IdleApi
    /\ loginAttempts = NoAttempts
    /\ dbc = NoDbCall

\* ---------------------------------------------------------- startScheduler
\* scheduler.ts:54: the immediate run; :57 registers the cron callback
startScheduler ==
    /\ alive /\ ~started
    /\ started' = TRUE
    /\ cycles' = [cycles EXCEPT ![0] = BeginCycle(0)]
    /\ nextCycle' = 1
    /\ UNCHANGED <<clock, alive, store, market, cache, lastTick, channels, ev, fx, edits, api, loginAttempts, dbc>>

TickDue ==
    /\ started
    /\ clock % CronIntervalMs = 0
    /\ lastTick # clock
    /\ nextCycle < MaxCycles

\* scheduler.ts:57-59: the cron callback calls checkPrices() and does not
\* await it, whatever the state of the earlier invocations
CronTick ==
    /\ alive /\ TickDue
    /\ cycles' = [cycles EXCEPT ![nextCycle] = BeginCycle(nextCycle)]
    /\ nextCycle' = nextCycle + 1
    /\ lastTick' = clock
    /\ UNCHANGED <<clock, started, alive, store, market, cache, channels, ev, fx, edits, api, loginAttempts, dbc>>

\* time passes while the process waits on I/O; a due cron firing comes first
Elapse ==
    /\ alive /\ started /\ ~TickDue
    /\ clock + StepMs <= MaxClock
    /\ clock' = clock + StepMs
    /\ UNCHANGED <<started, alive, store, market, cache, cycles, nextCycle, lastTick, channels, ev, fx, edits, api, loginAttempts, dbc>>

\* ------------------------------------------------------------ checkPrices
Reject_carriesOn(c) ==
    /\ cycles' = [cycles EXCEPT ![c] =
            IF @.pc = "update" /\ @.i < Len(@.triggered)
            THEN [@ EXCEPT !.pc = notifyEntry, !.i = @ + 1]
            ELSE [@ EXCEPT !.pc = "rejected"]]
    /\ alive' \in BOOLEAN

\* An awaited store call rejects (StoreError).  Neither checkPrices nor its
\* callers (scheduler.ts:54, :58) catch it: the promise of the invocation is
\* rejected and unhandled.  Node terminates the process on an unhandled
\* rejection or only warns, depending on its version and flags.
Reject(c) ==
    /\ cycles' = [cycles EXCEPT ![c].pc = "rejected"]
    /\ alive' \in BOOLEAN

noAlerts_never(alerts) == FALSE

\* scheduler.ts:10: alerts.length === 0
noAlerts(alerts) == Len(alerts) = 0

\* scheduler.ts:9-20 and price-fetcher.ts:29-35: getEnabledAlerts resolves;
\* with no alert the cycle returns; otherwise fetchPrices is called and runs
\* to its cache test, returning the cached list on a hit
LoadAlerts(c) ==
    /\ alive /\ cycles[c].pc = "load"
    /\ LET alerts == getEnabledAlerts(store)
           symbols == symbolsOf(alerts, {})
           hit == cacheHit(cache, symbols, clock)
       IN  cycles' = [cycles EXCEPT ![c] =
               IF noAlerts(alerts) THEN [@ EXCEPT !.pc = "done"]
               ELSE IF hit THEN [@ EXCEPT !.pc = "evaluate", !.alerts = alerts,
                                         !.symbols = symbols, !.prices = cache.data]
               ELSE [@ EXCEPT !.pc = "upstream", !.alerts = alerts,
                              !.symbols = symbols, !.k = 0, !.results = <<>>]]
    /\ UNCHANGED <<clock, started, alive, store, market, cache, nextCycle, lastTick, channels, ev, fx, edits, api, loginAttempts, dbc>>

\* scheduler.ts:9: the SELECT fails
LoadAlertsFails(c) ==
    /\ alive /\ cycles[c].pc = "load"
    /\ Reject(c)
    /\ UNCHANGED <<clock, started, store, market, cache, nextCycle, lastTick, channels, ev, fx, edits, api, loginAttempts, dbc>>

\* price-fetcher.ts:39-49 with fetchChart (7-27): the next symbol's request
\* returns a quote, returns no market price (null), or fails (caught and
\* logged at :43); after the last symbol the cache is replaced and the list
\* returned
FetchChart(c) ==
    /\ alive /\ cycles[c].pc = "upstream"
    /\ \E outcome \in {"quote", "null", "error"} :
         LET me == cycles[c]
             sym == me.symbols[me.k + 1]
             results == IF outcome = "quote"
                        THEN Append(me.results, [symbol |-> sym, price |-> market[sym]])
                        ELSE me.results
             failed == me.upstreamError \/ outcome = "error"
         IN  IF me.k + 1 < Len(me.symbols)
             THEN /\ cycles' = [cycles EXCEPT ![c].k = me.k + 1, ![c].results = results,
                                              ![c].upstreamError = failed]
                  /\ UNCHANGED cache
             ELSE /\ cache' = cacheEntry(results, me.symbols, clock)
                  /\ cycles' = [cycles EXCEPT ![c].k = me.k + 1, ![c].results = results,
                                              ![c].upstreamError = failed,
                                              ![c].prices = results, ![c].pc = "evaluate"]
    /\ UNCHANGED <<clock, started, alive, store, market, nextCycle, lastTick, channels, ev, fx, edits, api, loginAttempts, dbc>>

noCrossing_never(triggered) == FALSE

\* scheduler.ts:32: triggered.length === 0
noCrossing(triggered) == Len(triggered) = 0

\* scheduler.ts:26-37 and notifier.ts:7-21: fetchPrices has returned; the
\* crossings are computed at Date.now(); with none the cycle returns,
\* otherwise notify starts on the first crossing
Evaluate(c) ==
    /\ alive /\ cycles[c].pc = "evaluate"
    /\ LET me == cycles[c]
           triggered == evaluateAlerts(me.alerts, me.prices, cooldownMinutes, clock)
       IN  cycles' = [cycles EXCEPT ![c] =
               IF noCrossing(triggered)
               THEN [@ EXCEPT !.pc = "done"]
               ELSE [@ EXCEPT !.pc = notifyEntry,
                              !.triggered = triggered, !.i = 1]]
    /\ UNCHANGED <<clock, started, alive, store, market, cache, nextCycle, lastTick, channels, ev, fx, edits, api, loginAttempts, dbc>>

Attempt(me, channel, ok) ==
    [i |-> me.i, id |-> me.triggered[me.i].alert.id,
     direction |-> me.triggered[me.i].direction,
     channel |-> channel, ok |-> ok]

\* where notify goes after the e-mail attempt of a crossing, sent or failed
afterEmail_abortOnFailure(ok) ==
    IF ~ok THEN "update"
    ELSE IF "sms" \in channels THEN "sms" ELSE "update"

afterEmail(ok) == IF "sms" \in channels THEN "sms" ELSE "update"

\* notifier.ts:19-26: sendEmailAlert resolves or throws; the catch logs
SendEmail(c) ==
    /\ alive /\ cycles[c].pc = "email"
    /\ \E ok \in BOOLEAN :
         cycles' = [cycles EXCEPT ![c].attempts = Append(@, Attempt(cycles[c], "email", ok)),
                                  ![c].pc = afterEmail(ok)]
    /\ UNCHANGED <<clock, started, alive, store, market, cache, nextCycle, lastTick, channels, ev, fx, edits, api, loginAttempts, dbc>>

\* notifier.ts:28-35: sendSmsAlert resolves or throws; the catch logs
SendSms(c) ==
    /\ alive /\ cycles[c].pc = "sms"
    /\ \E ok \in BOOLEAN :
         cycles' = [cycles EXCEPT ![c].attempts = Append(@, Attempt(cycles[c], "sms", ok)),
                                  ![c].pc = "update"]
    /\ UNCHANGED <<clock, started, alive, store, market, cache, nextCycle, lastTick, channels, ev, fx, edits, api, loginAttempts, dbc>>

\* notifier.ts:37: whether the cooldown write of the current crossing is made;
\* the call stands in the loop body under no condition
cooldownWriteDue_onlyOnSuccess(me) ==
    \E k \in 1..Len(me.attempts) : me.attempts[k].i = me.i /\ me.attempts[k].ok

cooldownWriteDue(me) == TRUE

\* notifier.ts:37 and the loop head :11: updateLastNotified(alert.id) is
\* called for every crossing, whatever the deliveries did; then the next
\* crossing, or notify and checkPrices return
RecordCooldown(c) ==
    /\ alive /\ cycles[c].pc = "update"
    /\ LET me == cycles[c]
           t == me.triggered[me.i]
       IN  /\ store' = IF cooldownWriteDue(me)
                       THEN updateLastNotified(store, t.alert.id, clock)
                       ELSE store
           /\ cycles' = [cycles EXCEPT
                 ![c].writes = IF cooldownWriteDue(me)
                               THEN Append(@, [i |-> me.i, id |-> t.alert.id,
                                               direction |-> t.direction])
                               ELSE @,
                 ![c].i = IF me.i < Len(me.triggered) THEN me.i + 1 ELSE me.i,
                 ![c].pc = IF me.i < Len(me.triggered) THEN notifyEntry ELSE "done"]
    /\ UNCHANGED <<clock, started, alive, market, cache, nextCycle, lastTick, channels, ev, fx, edits, api, loginAttempts, dbc>>

\* notifier.ts:37: the UPDATE fails; notify throws out of its loop
RecordCooldownFails(c) ==
    /\ alive /\ cycles[c].pc = "update"
    /\ Reject(c)
    /\ UNCHANGED <<clock, started, store, market, cache, nextCycle, lastTick, channels, ev, fx, edits, api, loginAttempts, dbc>>

\* ------------------------------------------------ the alert routes, server.ts
\* The owner of the alerts, logged in, edits them between two cycles of the
\* scheduler the server has started (server.ts:624-627).
\* An edit no later cycle would see is left out.
BetweenCycles == started /\ nextCycle < MaxCycles /\ \A c \in CycleIds : ~Running(c)

StoreIds(rows) == {rows[k].id : k \in 1..Len(rows)}

\* server.ts:515-539: PATCH /api/alerts/:id/enable and /disable, for an alert
\* in the other state
PatchEnabled ==
    /\ alive /\ BetweenCycles /\ edits < MaxStoreEdits
    /\ \E id \in StoreIds(store), enabled \in BOOLEAN :
         /\ store' = setAlertEnabled(store, id, UserIds[1], enabled)
         /\ store' # store
    /\ edits' = edits + 1
    /\ UNCHANGED <<clock, started, alive, market, cache, cycles, nextCycle, lastTick, channels, ev, fx, api, loginAttempts, dbc>>

\* server.ts:502-513: DELETE /api/alerts/:id
DeleteAlert ==
    /\ alive /\ BetweenCycles /\ edits < MaxStoreEdits
    /\ \E id \in StoreIds(store) : store' = removeAlert(store, id, UserIds[1])
    /\ edits' = edits + 1
    /\ UNCHANGED <<clock, started, alive, market, cache, cycles, nextCycle, lastTick, channels, ev, fx, api, loginAttempts, dbc>>

\* server.ts:465-500: POST /api/alerts for a second alert.  The route looks
\* the symbol up with fetchSinglePrice, that is fetchPrices([symbol]): a cache
\* hit, or one chart request whose answer, whatever it is, replaces the cache
\* (price-fetcher.ts:29-50); then the row is inserted under a new id.
PostAlert ==
    /\ alive /\ BetweenCycles /\ edits < MaxStoreEdits
    /\ Len(store) < Len(AlertIds)
    /\ \E symbol \in Symbols, outcome \in {"quote", "null", "error"} :
         LET id == CHOOSE a \in {AlertIds[k] : k \in 1..Len(AlertIds)} : a \notin StoreIds(store)
             results == IF outcome = "quote"
                        THEN <<[symbol |-> symbol, price |-> market[symbol]]>> ELSE <<>>
         IN  /\ cache' = IF cacheHit(cache, <<symbol>>, clock) THEN cache
                         ELSE cacheEntry(results, <<symbol>>, clock)
             /\ store' = addAlert(store, id, UserIds[1], symbol, Threshold + 1, None)
    /\ edits' = edits + 1
    /\ UNCHANGED <<clock, started, alive, market, cycles, nextCycle, lastTick, channels, ev, fx, api, loginAttempts, dbc>>

Next ==
    \/ startScheduler
    \/ CronTick
    \/ Elapse
    \/ \E c \in CycleIds : LoadAlerts(c)
    \/ \E c \in CycleIds : LoadAlertsFails(c)
    \/ \E c \in CycleIds : FetchChart(c)
    \/ \E c \in CycleIds : Evaluate(c)
    \/ \E c \in CycleIds : SendEmail(c)
    \/ \E c \in CycleIds : SendSms(c)
    \/ \E c \in CycleIds : RecordCooldown(c)
    \/ \E c \in CycleIds : RecordCooldownFails(c)

Spec == Init /\ [][Next]_vars

\* ------------------------------------- the scheduler and the alert routes
\* The scheduler with both channels configured and AAPL at the threshold of
\* a1, while the owner edits the alerts.
InitStore ==
    /\ Init
    /\ channels = Channels
    /\ market = [sym \in Symbols |-> Threshold]

NextStore ==
    \/ Next
    \/ PatchEnabled
    \/ DeleteAlert
    \/ PostAlert

SpecStore == InitStore /\ [][NextStore]_vars

\* ------------------------------------------- the scheduler with fair calls
\* Every call an invocation of checkPrices awaits (store, upstream, channel)
\* eventually resolves or rejects, and the continuation then runs: a step of
\* an invocation that stays possible is eventually taken.
CycleStep(c) ==
    \/ LoadAlerts(c)
    \/ LoadAlertsFails(c)
    \/ FetchChart(c)
    \/ Evaluate(c)
    \/ SendEmail(c)
    \/ SendSms(c)
    \/ RecordCooldown(c)
    \/ RecordCooldownFails(c)

SpecLive == InitStore /\ [][Next]_vars /\ \A c \in CycleIds : WF_vars(CycleStep(c))

\* --------------------------------------------- evaluateAlerts called alone
\* A StockAlert as a caller of evaluateAlerts may hand it over (types.ts)
StockAlert(id, symbol, above, below, lastAbove, lastBelow) ==
    [id |-> id, symbol |-> symbol, abovePrice |-> above, belowPrice |-> below,
     enabled |-> TRUE, lastNotifiedAt |-> None,
     lastNotifiedAboveAt |-> lastAbove, lastNotifiedBelowAt |-> lastBelow]

CooldownMs == cooldownMinutes * 60 * 1000
EvalNow == 2 * CooldownMs

\* never notified, notified just now, 1 ms short of the cooldown, exactly the
\* cooldown ago, 1 ms more than the cooldown ago
EvalTimestamps == {None, EvalNow, EvalNow - CooldownMs + 1, EvalNow - CooldownMs, EvalNow - CooldownMs - 1}

\* the alert under study: every combination of thresholds and timestamps
SubjectAlerts ==
    {StockAlert("a1", sym, above, below, la, lb) :
        sym \in Symbols, above \in {None, Threshold}, below \in {None, Threshold},
        la \in EvalTimestamps, lb \in EvalTimestamps}

\* the alerts around it in the list
FillerAlerts ==
    {StockAlert("a2", "AAPL", Threshold, None, None, None),
     StockAlert("a3", "MSFT", None, Threshold, EvalNow, EvalNow)}

RECURSIVE SeqsUpTo(_, _)
SeqsUpTo(S, n) ==
    IF n = 0 THEN {<<>>}
    ELSE SeqsUpTo(S, n - 1) \cup
         {Append(q, x) : q \in {r \in SeqsUpTo(S, n - 1) : Len(r) = n - 1}, x \in S}

EvalAlertLists ==
    {<<>>} \cup
    {pre \o <<a>> \o post :
        a \in SubjectAlerts,
        pre \in SeqsUpTo(FillerAlerts, MaxEvalAlerts - 1),
        post \in SeqsUpTo(FillerAlerts, MaxEvalAlerts - 1)}

EvalPriceLists == SeqsUpTo([symbol : Symbols, price : Prices], MaxEvalPrices)

InitEval ==
    /\ clock = EvalNow
    /\ started = FALSE
    /\ alive = TRUE
    /\ store = <<>>
    /\ market = [sym \in Symbols |-> Threshold]
    /\ cache = NoCache
    /\ cycles = [c \in CycleIds |-> IdleCycle]
    /\ nextCycle = 0
    /\ lastTick = None
    /\ channels = {}
    /\ ev \in {[phase |-> "input", alerts |-> al, prices |-> pl, now |-> EvalNow, result |-> <<>>] :
                  al \in {q \in EvalAlertLists : Len(q) <= MaxEvalAlerts}, pl \in EvalPriceLists}
    /\ fx = IdleFetch
    /\ edits = 0
    /\ api = IdleApi
    /\ loginAttempts = NoAttempts
    /\ dbc = NoDbCall

\* evaluateAlerts(alerts, prices, config.cooldownMinutes) at Date.now() = ev.now
EvalCall ==
    /\ ev.phase = "input"
    /\ ev' = [ev EXCEPT !.phase = "called",
                        !.result = evaluateAlerts(ev.alerts, ev.prices, cooldownMinutes, ev.now)]
    /\ UNCHANGED <<clock, started, alive, store, market, cache, cycles, nextCycle, lastTick, channels, fx, edits, api, loginAttempts, dbc>>

NextEval == EvalCall

SpecEval == InitEval /\ [][NextEval]_vars

\* ------------------------------------------------ fetchPrices called alone
\* fetchPrices as its callers outside the scheduler use it (server.ts:598,
\* fetchSinglePrice): one call at a time against the process-wide cache.
\* The file holds two bodies of fetchPrices: "chart" is lines 29-50 (one
\* fetchChart request per symbol), "quote" is lines 98-109 (one yf.quote
\* request for the list, through fetchWithRetry).  A build has one of them.
FetcherVariants == {"chart", "quote"}

\* the lists a caller asks for: none, one symbol, the same symbol twice, and
\* two symbols in either order
FetchRequests ==
    {<<>>, <<"AAPL">>, <<"AAPL", "AAPL">>, <<"AAPL", "MSFT">>, <<"MSFT", "AAPL">>}

\* regularMarketPrice as upstream reports it: it moves between requests
Quotes == {Threshold, Threshold + 1}

MaxFetchClock == StartClock + MaxFetchSteps * StepMs

InitFetch ==
    /\ clock = StartClock
    /\ started = FALSE
    /\ alive = TRUE
    /\ store = <<>>
    /\ market = [sym \in Symbols |-> Threshold]
    /\ cache = NoCache
    /\ cycles = [c \in CycleIds |-> IdleCycle]
    /\ nextCycle = 0
    /\ lastTick = None
    /\ channels = {}
    /\ ev = NoEval
    /\ fx \in {[IdleFetch EXCEPT !.variant = v] : v \in FetcherVariants}
    /\ edits = 0
    /\ api = IdleApi
    /\ loginAttempts = NoAttempts
    /\ dbc = NoDbCall

FetchEnded == fx.pc \in {"returned", "threw"}

\* price-fetcher.ts:30-35 / 99-104: the synchronous head of fetchPrices: the
\* empty list returns [], a cache hit returns cache.data, anything else goes
\* upstream
CallFetchPricesOf(requests, maxCalls) ==
    /\ fx.pc = "idle" \/ FetchEnded
    /\ fx.n < maxCalls
    /\ \E symbols \in requests :
         LET call == [IdleFetch EXCEPT !.variant = fx.variant, !.n = fx.n + 1,
                                       !.symbols = symbols, !.at = clock, !.before = cache]
         IN  fx' = IF Len(symbols) = 0
                   THEN [call EXCEPT !.pc = "returned", !.endAt = clock]
                   ELSE IF cacheHit(cache, symbols, clock)
                   THEN [call EXCEPT !.pc = "returned", !.data = cache.data, !.endAt = clock]
                   ELSE [call EXCEPT !.pc = "upstream"]
    /\ UNCHANGED <<clock, started, alive, store, market, cache, cycles, nextCycle, lastTick, channels, ev, edits, api, loginAttempts, dbc>>

CallFetchPrices == CallFetchPricesOf(FetchRequests, MaxFetchCalls)

\* price-fetcher.ts:37-49 with fetchChart (7-27): the request for the next
\* symbol returns a quote, returns no market price (null), or fails with a
\* non-2xx status (429 or another); the failure is caught and logged (:43-44)
\* and the loop goes on.  After the last symbol the cache is replaced (:48)
\* and the list returned.
fetchChartOf(outcomes, quotes) ==
    /\ fx.pc = "upstream" /\ fx.variant = "chart"
    /\ \E outcome \in outcomes, price \in quotes :
         LET sym == fx.symbols[fx.k + 1]
             results == IF outcome = "quote"
                        THEN Append(fx.results, [symbol |-> sym, price |-> price])
                        ELSE fx.results
             failures == IF outcome \in {"429", "other"}
                         THEN fx.failures \cup {outcome} ELSE fx.failures
             answer == IF outcome = "quote" THEN <<[symbol |-> sym, regularMarketPrice |-> price]>>
                       ELSE IF outcome = "null" THEN <<[symbol |-> sym, regularMarketPrice |-> None]>>
                       ELSE <<>>
             step == [fx EXCEPT !.k = fx.k + 1, !.results = results, !.quotes = fx.quotes \o answer,
                                !.calls = fx.calls + 1, !.failures = failures]
         IN  IF fx.k + 1 < Len(fx.symbols)
             THEN /\ fx' = step
                  /\ UNCHANGED cache
             ELSE /\ cache' = cacheEntry(results, fx.symbols, clock)
                  /\ fx' = [step EXCEPT !.pc = "returned", !.data = results, !.endAt = clock]
    /\ UNCHANGED <<clock, started, alive, store, market, cycles, nextCycle, lastTick, channels, ev, edits, api, loginAttempts, dbc>>

fetchChart == fetchChartOf({"quote", "null", "429", "other"}, Quotes)

\* price-fetcher.ts:68: retries = 2
retries == 2
\* price-fetcher.ts:87: the unit of the retry delay, 2000 ms
RetryUnitMs == 2000

retryDelay_constant(attempt) == RetryUnitMs

\* price-fetcher.ts:87: const delay = (attempt + 1) * 2000
retryDelay(attempt) == (attempt + 1) * RetryUnitMs

\* what yf.quote(symbols) resolves to: a quote for each requested entry, each
\* with a regularMarketPrice or without one
QuoteArrays(symbols) ==
    {[k \in 1..Len(symbols) |-> [symbol |-> symbols[k], regularMarketPrice |-> ps[k]]] :
        ps \in [1..Len(symbols) -> Quotes \cup {None}]}

toResults_keepUnpriced(quoteArray) ==
    [k \in 1..Len(quoteArray) |->
        [symbol |-> quoteArray[k].symbol, price |-> quoteArray[k].regularMarketPrice]]

\* price-fetcher.ts:73-83: the quotes that carry a price, in order
RECURSIVE toResults(_)
toResults(quoteArray) ==
    IF Len(quoteArray) = 0 THEN <<>>
    ELSE LET q == Head(quoteArray)
         IN  (IF q.regularMarketPrice # None
              THEN <<[symbol |-> q.symbol, price |-> q.regularMarketPrice]>>
              ELSE <<>>) \o toResults(Tail(quoteArray))

\* price-fetcher.ts:52-55 / 111-114: fetchSinglePrice(symbol) is
\* fetchPrices([symbol]) followed by results[0] ?? null
fetchSinglePrice(results) == IF Len(results) > 0 THEN results[1] ELSE None

\* price-fetcher.ts:69-93 and 106-108: one attempt of fetchWithRetry.  The
\* quote request resolves: the results are returned, the cache is replaced
\* and fetchPrices returns.  It rejects with a 429 and attempts are left: the
\* delay is started.  It rejects otherwise: the error is thrown again and
\* fetchPrices rejects with it, the cache untouched.
fetchWithRetry ==
    /\ fx.pc = "upstream" /\ fx.variant = "quote"
    /\ \E outcome \in {"ok", "429", "other"}, quoteArray \in QuoteArrays(fx.symbols) :
         LET step == [fx EXCEPT !.calls = fx.calls + 1]
         IN  IF outcome = "ok"
             THEN /\ cache' = cacheEntry(toResults(quoteArray), fx.symbols, clock)
                  /\ fx' = [step EXCEPT !.pc = "returned", !.quotes = quoteArray,
                                        !.data = toResults(quoteArray), !.endAt = clock]
             ELSE IF outcome = "429" /\ fx.attempt < retries
             THEN /\ fx' = [step EXCEPT !.pc = "delay"]
                  /\ UNCHANGED cache
             ELSE /\ fx' = [step EXCEPT !.pc = "threw", !.endAt = clock,
                                        !.failures = fx.failures \cup {outcome}]
                  /\ UNCHANGED cache
    /\ UNCHANGED <<clock, started, alive, store, market, cycles, nextCycle, lastTick, channels, ev, edits, api, loginAttempts, dbc>>

\* price-fetcher.ts:87-90: the timer of the delay fires after `delay` ms and
\* the loop continues with the next attempt
retryTimer ==
    /\ fx.pc = "delay"
    /\ clock' = clock + retryDelay(fx.attempt)
    /\ fx' = [fx EXCEPT !.pc = "upstream", !.attempt = fx.attempt + 1,
                        !.waits = Append(fx.waits, retryDelay(fx.attempt))]
    /\ UNCHANGED <<started, alive, store, market, cache, cycles, nextCycle, lastTick, channels, ev, edits, api, loginAttempts, dbc>>

\* time passes between two calls
FetchElapse ==
    /\ fx.pc = "idle" \/ FetchEnded
    /\ ~TickDue
    /\ clock + StepMs <= MaxFetchClock
    /\ clock' = clock + StepMs
    /\ UNCHANGED <<started, alive, store, market, cache, cycles, nextCycle, lastTick, channels, ev, fx, edits, api, loginAttempts, dbc>>

NextFetch ==
    \/ CallFetchPrices
    \/ fetchChart
    \/ fetchWithRetry
    \/ retryTimer
    \/ FetchElapse

SpecFetch == InitFetch /\ [][NextFetch]_vars


\* ------------------------------ the scheduler and a request share the cache
\* server.ts:624-627 starts the scheduler when the server listens; after that
\* a request calls fetchPrices (server.ts:598, fetchSinglePrice) while the
\* cycles run: for the symbol of the one alert, or for two symbols.  The
\* store answers every call and no channel is configured; upstream quotes
\* the request a price other than the one the cycles are quoted.
InitShared ==
    /\ Init
    /\ store = <<Row(AlertIds[1], "AAPL", Threshold, Threshold, TRUE, None)>>
    /\ market = [sym \in Symbols |-> Threshold]
    /\ channels = {}

SharedRequests == {<<"AAPL">>, <<"MSFT", "AAPL">>}

RequestFetchPrices ==
    /\ started
    /\ CallFetchPricesOf(SharedRequests, MaxSharedCalls)

RequestFetchChart == fetchChartOf({"quote", "other"}, {Threshold + 1})

NextShared ==
    \/ startScheduler
    \/ CronTick
    \/ Elapse
    \/ \E c \in CycleIds : LoadAlerts(c)
    \/ \E c \in CycleIds : FetchChart(c)
    \/ \E c \in CycleIds : Evaluate(c)
    \/ \E c \in CycleIds : RecordCooldown(c)
    \/ RequestFetchPrices
    \/ RequestFetchChart
    \/ FetchElapse

SpecShared == InitShared /\ [][NextShared]_vars

\* ------------------------------------------- the functions of db.ts alone
\* removeAlert, setAlertEnabled, updateAlertNotes and updateAlertThresholds
\* called as db.ts exports them, with any alert id and any user id, on a
\* table of two alerts: a1 of the first user, with both thresholds, enabled
\* or not, notified a step ago or never, with notes or without; a2 of either
\* user.
DbStores ==
    {<<[Row(AlertIds[1], "AAPL", Threshold, Threshold, enabled, ts) EXCEPT !.notes = notes],
       [Row(AlertIds[2], "MSFT", Threshold + 1, None, TRUE, None) EXCEPT !.userId = owner]>> :
        enabled \in BOOLEAN, ts \in {None, StartClock - StepMs},
        notes \in {NullNotes, "old"}, owner \in {UserIds[k] : k \in 1..Len(UserIds)}}

DbIds == {AlertIds[k] : k \in 1..Len(AlertIds)}
DbUsers == {UserIds[k] : k \in 1..Len(UserIds)}

InitDb ==
    /\ clock = StartClock
    /\ started = FALSE
    /\ alive = TRUE
    /\ store \in DbStores
    /\ market = [sym \in Symbols |-> Threshold]
    /\ cache = NoCache
    /\ cycles = [c \in CycleIds |-> IdleCycle]
    /\ nextCycle = 0
    /\ lastTick = None
    /\ channels = {}
    /\ ev = NoEval
    /\ fx = IdleFetch
    /\ edits = 0
    /\ api = IdleApi
    /\ loginAttempts = NoAttempts
    /\ dbc = NoDbCall

\* the record of a call: its arguments, the table it found, what it returned
DbCall(op, id, userId, args) ==
    [op |-> op, id |-> id, userId |-> userId, args |-> args, before |-> store,
     result |-> rowMatched(store, id, userId), n |-> dbc.n + 1]

\* db.ts:178-184
CallRemoveAlert ==
    /\ dbc.n < MaxDbCalls
    /\ \E id \in DbIds, userId \in DbUsers :
         /\ store' = removeAlert(store, id, userId)
         /\ dbc' = DbCall("removeAlert", id, userId, <<>>)
    /\ UNCHANGED <<clock, started, alive, market, cache, cycles, nextCycle, lastTick, channels, ev, fx, edits, api, loginAttempts>>

\* db.ts:201-207
CallSetAlertEnabled ==
    /\ dbc.n < MaxDbCalls
    /\ \E id \in DbIds, userId \in DbUsers, enabled \in BOOLEAN :
         /\ store' = setAlertEnabled(store, id, userId, enabled)
         /\ dbc' = DbCall("setAlertEnabled", id, userId, <<enabled>>)
    /\ UNCHANGED <<clock, started, alive, market, cache, cycles, nextCycle, lastTick, channels, ev, fx, edits, api, loginAttempts>>

\* db.ts:209-215
CallUpdateAlertNotes ==
    /\ dbc.n < MaxDbCalls
    /\ \E id \in DbIds, userId \in DbUsers, notes \in {"new note"} :
         /\ store' = updateAlertNotes(store, id, userId, notes)
         /\ dbc' = DbCall("updateAlertNotes", id, userId, <<notes>>)
    /\ UNCHANGED <<clock, started, alive, market, cache, cycles, nextCycle, lastTick, channels, ev, fx, edits, api, loginAttempts>>

\* db.ts:217-228: an undefined abovePrice or belowPrice is passed as null
CallUpdateAlertThresholds ==
    /\ dbc.n < MaxDbCalls
    /\ \E id \in DbIds, userId \in DbUsers,
          above \in {None, Threshold + 1}, below \in {None, Threshold - 1} :
         /\ store' = updateAlertThresholds(store, id, userId, above, below)
         /\ dbc' = DbCall("updateAlertThresholds", id, userId, <<above, below>>)
    /\ UNCHANGED <<clock, started, alive, market, cache, cycles, nextCycle, lastTick, channels, ev, fx, edits, api, loginAttempts>>

NextDb ==
    \/ CallRemoveAlert
    \/ CallSetAlertEnabled
    \/ CallUpdateAlertNotes
    \/ CallUpdateAlertThresholds

SpecDb == InitDb /\ [][NextDb]_vars

\* ------------------------------------------------------ the HTTP API alone
\* server.ts:375-622 over db.ts: every request is handled to its response in
\* one step.
\* username and password of a register or login request; "" is a missing field
Usernames == {"Bob", "bob", "al", ""}
RegisterPasswords == {"secret1", "pw"}
LoginPasswords == {"secret1", "hunter22"}

\* String.prototype.length of the strings above
length(str) ==
    CASE str = "" -> 0
      [] str \in {"al", "pw"} -> 2
      [] str \in {"Bob", "bob"} -> 3
      [] str = "secret1" -> 7
      [] str = "hunter22" -> 8

\* SQL LOWER()
LOWER(str) == IF str = "Bob" THEN "bob" ELSE str

\* bcrypt.hash / bcrypt.compare
hash(password) == <<"bcrypt", password>>
compare(password, passwordHash) == passwordHash = hash(password)

\* the number NaN, and a request value that is not numeric
NaN == 0 - 2
NotNumeric == 0 - 3
\* abovePrice / belowPrice of a request body: absent, a number, not a number
BodyValues == {None, Threshold, NotNumeric}
Number(value) == IF value = NotNumeric THEN NaN ELSE value
isNaN(value) == value = NaN

\* the UNIQUE constraint of users.username (db.ts:23), a TEXT column: an
\* INSERT fails with 23505 when the same string is stored already
usernameTaken(users, username) ==
    \E k \in 1..Len(users) : users[k].username = username

\* db.ts:86-96: the INSERT of createUser when the constraint lets it through
createUser(users, id, username, password) ==
    Append(users, [id |-> id, username |-> username, passwordHash |-> hash(password)])

\* db.ts:103-114: the user ids verifyUser may return, NoUser for null.  The
\* SELECT has no ORDER BY: with several matching rows any of them is rows[0].
verifyUser(users, username, password) ==
    LET rows == {k \in 1..Len(users) : LOWER(users[k].username) = LOWER(username)}
    IN  IF rows = {} THEN {NoUser}
        ELSE {IF compare(password, users[k].passwordHash) THEN users[k].id ELSE NoUser :
                 k \in rows}

noThreshold_never(abovePrice, belowPrice) == FALSE

\* server.ts:468, :563: abovePrice == null && belowPrice == null
noThreshold(abovePrice, belowPrice) == abovePrice = None /\ belowPrice = None

rateLimitAuth_countsRejected(attempts, key, now) ==
    LET entry == attempts[key]
    IN  IF entry # NoEntry /\ now < entry.resetAt
        THEN [allowed |-> entry.count < RATE_LIMIT_MAX,
              attempts |-> [attempts EXCEPT ![key].count = @ + 1]]
        ELSE [allowed |-> TRUE,
              attempts |-> [attempts EXCEPT ![key] =
                               [count |-> 1, resetAt |-> now + RATE_LIMIT_WINDOW_MS]]]

\* server.ts:340-371: whether next() is called, and loginAttempts afterwards.
\* The clean-up at :363-368 runs with more than 10000 keys only.
rateLimitAuth(attempts, key, now) ==
    LET entry == attempts[key]
    IN  IF entry # NoEntry /\ now < entry.resetAt
        THEN IF entry.count >= RATE_LIMIT_MAX
             THEN [allowed |-> FALSE, attempts |-> attempts]
             ELSE [allowed |-> TRUE, attempts |-> [attempts EXCEPT ![key].count = @ + 1]]
        ELSE [allowed |-> TRUE,
              attempts |-> [attempts EXCEPT ![key] =
                               [count |-> 1, resetAt |-> now + RATE_LIMIT_WINDOW_MS]]]

requireAuth_always(c) == TRUE

\* server.ts:442-452
requireAuth(c) == api.session[c] # NoUser

Respond(route, c, status, queries, fetches, body) ==
    [api EXCEPT !.n = api.n + 1,
                !.last = [route |-> route, client |-> c, status |-> status,
                          queries |-> queries, fetches |-> fetches, body |-> body]]

\* fetchPrices(symbols) run to its return: the list and the cache after it
fetchPricesNow(symbols, outcome) ==
    IF cacheHit(cache, symbols, clock) THEN [data |-> cache.data, cache |-> cache]
    ELSE LET results == IF outcome = "quote"
                        THEN [k \in 1..Len(symbols) |->
                                 [symbol |-> symbols[k], price |-> market[symbols[k]]]]
                        ELSE <<>>
         IN  [data |-> results,
              cache |-> cacheEntry(results, symbols, clock)]

InitApi ==
    /\ clock = StartClock
    /\ started = FALSE
    /\ alive = TRUE
    /\ store = <<>>
    /\ market = [sym \in Symbols |-> Threshold]
    /\ cache = NoCache
    /\ cycles = [c \in CycleIds |-> IdleCycle]
    /\ nextCycle = 0
    /\ lastTick = None
    /\ channels = {}
    /\ ev = NoEval
    /\ fx = IdleFetch
    /\ edits = 0
    /\ api = IdleApi
    /\ loginAttempts = NoAttempts
    /\ dbc = NoDbCall

\* server.ts:375-403: POST /api/auth/register, behind rateLimitAuth
Register(c, username, password) ==
    LET body == <<>>
        limit == rateLimitAuth(loginAttempts, c, clock)
    IN  /\ loginAttempts' = limit.attempts
        /\  IF ~limit.allowed
             THEN api' = Respond("register", c, 429, 0, 0, body)
             ELSE IF username = ""
             THEN api' = Respond("register", c, 400, 0, 0, body)
             ELSE IF length(username) < 3 \/ length(username) > 30
             THEN api' = Respond("register", c, 400, 0, 0, body)
             ELSE IF length(password) < 6
             THEN api' = Respond("register", c, 400, 0, 0, body)
             ELSE IF usernameTaken(api.users, username)
             THEN api' = Respond("register", c, 409, 1, 0, body)
             ELSE /\ Len(api.users) < Len(UserIds)
                  /\ LET id == UserIds[Len(api.users) + 1]
                     IN  api' = [Respond("register", c, 201, 1, 0, body) EXCEPT
                                    !.users = createUser(api.users, id, username, password),
                                    !.session[c] = id]

RouteRegister ==
    /\ api.n < MaxRequests
    /\ \E c \in Clients, username \in Usernames, password \in RegisterPasswords :
         Register(c, username, password)
    /\ UNCHANGED <<clock, started, alive, store, market, cache, cycles, nextCycle, lastTick, channels, ev, fx, edits, dbc>>

\* server.ts:405-424: POST /api/auth/login, behind rateLimitAuth
Login(c, username, password) ==
    LET body == <<>>
        limit == rateLimitAuth(loginAttempts, c, clock)
    IN  /\ loginAttempts' = limit.attempts
        /\  IF ~limit.allowed
             THEN api' = Respond("login", c, 429, 0, 0, body)
             ELSE IF username = ""
             THEN api' = Respond("login", c, 400, 0, 0, body)
             ELSE \E user \in verifyUser(api.users, username, password) :
                    IF user = NoUser
                    THEN api' = Respond("login", c, 401, 1, 0, body)
                    ELSE api' = [Respond("login", c, 200, 1, 0, body) EXCEPT !.session[c] = user]

RouteLogin ==
    /\ api.n < MaxRequests
    /\ \E c \in Clients, username \in Usernames, password \in LoginPasswords :
         Login(c, username, password)
    /\ UNCHANGED <<clock, started, alive, store, market, cache, cycles, nextCycle, lastTick, channels, ev, fx, edits, dbc>>

\* server.ts:426-430: POST /api/auth/logout destroys the session
RouteLogout ==
    /\ api.n < MaxRequests
    /\ \E c \in Clients :
         api' = [Respond("logout", c, 200, 0, 0, <<>>) EXCEPT !.session[c] = NoUser]
    /\ UNCHANGED <<clock, started, alive, store, market, cache, cycles, nextCycle, lastTick, channels, ev, fx, edits, loginAttempts, dbc>>

\* server.ts:456-463: GET /api/alerts
RouteListAlerts ==
    /\ api.n < MaxRequests
    /\ \E c \in Clients :
         api' = IF ~requireAuth(c) THEN Respond("listAlerts", c, 401, 0, 0, <<>>)
                ELSE Respond("listAlerts", c, 200, 1, 0, <<>>)
    /\ UNCHANGED <<clock, started, alive, store, market, cache, cycles, nextCycle, lastTick, channels, ev, fx, edits, loginAttempts, dbc>>

\* server.ts:465-500: POST /api/alerts; the price lookup of the symbol is
\* answered (a failed lookup is caught at :483 and changes nothing below)
RoutePostAlert ==
    /\ api.n < MaxRequests
    /\ \E c \in Clients, symbol \in {"AAPL", ""}, abovePrice \in BodyValues,
          belowPrice \in BodyValues :
         LET body == <<abovePrice, belowPrice>>
         IN  IF ~requireAuth(c)
             THEN /\ api' = Respond("postAlert", c, 401, 0, 0, body)
                  /\ UNCHANGED <<store, cache>>
             ELSE IF symbol = "" \/ noThreshold(abovePrice, belowPrice)
             THEN /\ api' = Respond("postAlert", c, 400, 0, 0, body)
                  /\ UNCHANGED <<store, cache>>
             ELSE /\ Len(store) < Len(AlertIds)
                  /\ LET id == CHOOSE a \in {AlertIds[k] : k \in 1..Len(AlertIds)} :
                                   a \notin StoreIds(store)
                     IN  store' = addAlert(store, id, api.session[c], symbol,
                                           IF abovePrice # None THEN Number(abovePrice) ELSE None,
                                           IF belowPrice # None THEN Number(belowPrice) ELSE None)
                  /\ cache' = fetchPricesNow(<<symbol>>, "quote").cache
                  /\ api' = Respond("postAlert", c, 201, 1, 1, body)
    /\ UNCHANGED <<clock, started, alive, market, cycles, nextCycle, lastTick, channels, ev, fx, edits, loginAttempts, dbc>>

\* server.ts:502-513: DELETE /api/alerts/:id
RouteDeleteAlert ==
    /\ api.n < MaxRequests
    /\ \E c \in Clients, id \in {AlertIds[k] : k \in 1..Len(AlertIds)} :
         IF ~requireAuth(c)
         THEN /\ api' = Respond("deleteAlert", c, 401, 0, 0, <<>>)
              /\ UNCHANGED store
         ELSE /\ store' = removeAlert(store, id, api.session[c])
              /\ api' = Respond("deleteAlert", c,
                                IF rowMatched(store, id, api.session[c]) THEN 200 ELSE 404,
                                1, 0, <<>>)
    /\ UNCHANGED <<clock, started, alive, market, cache, cycles, nextCycle, lastTick, channels, ev, fx, edits, loginAttempts, dbc>>

\* server.ts:515-539: PATCH /api/alerts/:id/enable and /disable
RouteSetEnabled ==
    /\ api.n < MaxRequests
    /\ \E c \in Clients, id \in {AlertIds[k] : k \in 1..Len(AlertIds)}, enabled \in BOOLEAN :
         IF ~requireAuth(c)
         THEN /\ api' = Respond("setEnabled", c, 401, 0, 0, <<>>)
              /\ UNCHANGED store
         ELSE /\ store' = setAlertEnabled(store, id, api.session[c], enabled)
              /\ api' = Respond("setEnabled", c,
                                IF rowMatched(store, id, api.session[c]) THEN 200 ELSE 404,
                                1, 0, <<>>)
    /\ UNCHANGED <<clock, started, alive, market, cache, cycles, nextCycle, lastTick, channels, ev, fx, edits, loginAttempts, dbc>>

\* server.ts:560-582: PATCH /api/alerts/:id/thresholds
RouteThresholds ==
    /\ api.n < MaxRequests
    /\ \E c \in Clients, id \in {AlertIds[k] : k \in 1..Len(AlertIds)},
          abovePrice \in BodyValues, belowPrice \in BodyValues :
         LET body == <<abovePrice, belowPrice>>
             above == IF abovePrice # None THEN Number(abovePrice) ELSE None
             below == IF belowPrice # None THEN Number(belowPrice) ELSE None
         IN  IF ~requireAuth(c)
             THEN /\ api' = Respond("thresholds", c, 401, 0, 0, body)
                  /\ UNCHANGED store
             ELSE IF noThreshold(abovePrice, belowPrice)
             THEN /\ api' = Respond("thresholds", c, 400, 0, 0, body)
                  /\ UNCHANGED store
             ELSE IF (above # None /\ isNaN(above)) \/ (below # None /\ isNaN(below))
             THEN /\ api' = Respond("thresholds", c, 400, 0, 0, body)
                  /\ UNCHANGED store
             ELSE /\ store' = updateAlertThresholds(store, id, api.session[c], above, below)
                  /\ api' = Respond("thresholds", c,
                                    IF rowMatched(store, id, api.session[c]) THEN 200 ELSE 404,
                                    1, 0, body)
    /\ UNCHANGED <<clock, started, alive, market, cache, cycles, nextCycle, lastTick, channels, ev, fx, edits, loginAttempts, dbc>>

\* server.ts:586-608: GET /api/prices?symbols=...; the empty list stands for
\* a missing or blank parameter
RoutePrices ==
    /\ api.n < MaxRequests
    /\ \E c \in Clients, symbols \in {<<>>, <<"MSFT", "AAPL">>} :
         IF ~requireAuth(c)
         THEN /\ api' = Respond("prices", c, 401, 0, 0, <<>>)
              /\ UNCHANGED cache
         ELSE IF Len(symbols) = 0
         THEN /\ api' = Respond("prices", c, 400, 0, 0, <<>>)
              /\ UNCHANGED cache
         ELSE /\ cache' = fetchPricesNow(symbols, "quote").cache
              /\ api' = Respond("prices", c, 200, 0, 1, <<>>)
    /\ UNCHANGED <<clock, started, alive, store, market, cycles, nextCycle, lastTick, channels, ev, fx, edits, loginAttempts, dbc>>

\* server.ts:610-622: GET /api/price/:symbol; fetchSinglePrice gives null
\* exactly when the list of fetchPrices([symbol]) is empty
RoutePrice ==
    /\ api.n < MaxRequests
    /\ \E c \in Clients, symbol \in {"AAPL"}, outcome \in {"quote", "error"} :
         IF ~requireAuth(c)
         THEN /\ api' = Respond("price", c, 401, 0, 0, <<>>)
              /\ UNCHANGED cache
         ELSE LET fetched == fetchPricesNow(<<symbol>>, outcome)
              IN  /\ cache' = fetched.cache
                  /\ api' = Respond("price", c,
                                    IF Len(fetched.data) = 0 THEN 404 ELSE 200,
                                    0, 1, <<>>)
    /\ UNCHANGED <<clock, started, alive, store, market, cycles, nextCycle, lastTick, channels, ev, fx, edits, loginAttempts, dbc>>

NextApi ==
    \/ RouteRegister
    \/ RouteLogin
    \/ RouteLogout
    \/ RouteListAlerts
    \/ RoutePostAlert
    \/ RouteDeleteAlert
    \/ RouteSetEnabled
    \/ RouteThresholds
    \/ RoutePrices
    \/ RoutePrice

SpecApi == InitApi /\ [][NextApi]_vars

\* ------------------------------------------- the limiter of the auth routes
\* One registered user; the browsers keep sending login requests for that
\* name, with the right password or a wrong one, while time passes in thirds
\* of the limiter's window.
LimitStepMs == RATE_LIMIT_WINDOW_MS \div 3
MaxLimitClock == StartClock + MaxLimitSteps * LimitStepMs

InitLimit ==
    /\ clock = StartClock
    /\ started = FALSE
    /\ alive = TRUE
    /\ store = <<>>
    /\ market = [sym \in Symbols |-> Threshold]
    /\ cache = NoCache
    /\ cycles = [c \in CycleIds |-> IdleCycle]
    /\ nextCycle = 0
    /\ lastTick = None
    /\ channels = {}
    /\ ev = NoEval
    /\ fx = IdleFetch
    /\ edits = 0
    /\ api = [IdleApi EXCEPT !.users = createUser(<<>>, UserIds[1], "Bob", "secret1")]
    /\ loginAttempts = NoAttempts
    /\ dbc = NoDbCall

\* server.ts:405-424 behind rateLimitAuth: one more login request
LoginAttempt ==
    /\ api.n < MaxAuthRequests
    /\ \E c \in Clients, password \in LoginPasswords : Login(c, "Bob", password)
    /\ UNCHANGED <<clock, started, alive, store, market, cache, cycles, nextCycle, lastTick, channels, ev, fx, edits, dbc>>

\* time passes between two requests
LimitElapse ==
    /\ clock + LimitStepMs <= MaxLimitClock
    /\ clock' = clock + LimitStepMs
    /\ UNCHANGED <<started, alive, store, market, cache, cycles, nextCycle, lastTick, channels, ev, fx, edits, api, loginAttempts, dbc>>

NextLimit ==
    \/ LoginAttempt
    \/ LimitElapse

SpecLimit == InitLimit /\ [][NextLimit]_vars


\* ======================================================== the properties
\* ---- vocabulary of the properties about evaluateAlerts (SpecEval)
Called == ev.phase = "called"

\* the sample of a symbol: the last one of the price list
HasSample(sym) == \E k \in 1..Len(ev.prices) : ev.prices[k].symbol = sym

SamplePrice(sym) ==
    LET ks == {k \in 1..Len(ev.prices) : ev.prices[k].symbol = sym}
        last == CHOOSE k \in ks : \A j \in ks : j <= k
    IN  ev.prices[last].price

AboveSatisfied(a) ==
    a.abovePrice # None /\ HasSample(a.symbol) /\ SamplePrice(a.symbol) >= a.abovePrice

BelowSatisfied(a) ==
    a.belowPrice # None /\ HasSample(a.symbol) /\ SamplePrice(a.symbol) <= a.belowPrice

Elapsed(timestamp) == ev.now - timestamp

\* unset, or at least cooldownMinutes old
Eligible(timestamp) == timestamp = None \/ Elapsed(timestamp) >= CooldownMs

\* set and less than cooldownMinutes old
Recent(timestamp) == timestamp # None /\ Elapsed(timestamp) < CooldownMs

Emitted(a, direction) ==
    \E j \in 1..Len(ev.result) : ev.result[j].alert = a /\ ev.result[j].direction = direction

EvalAlertSet == {ev.alerts[k] : k \in 1..Len(ev.alerts)}

\* C5: in evaluateAlerts a direction's cooldown never affects the other
\* direction: for an alert with both thresholds satisfied, a recent
\* lastNotifiedAboveAt suppresses the above crossing only and the below
\* crossing is still emitted when below is itself eligible, and
\* symmetrically for a recent lastNotifiedBelowAt.
C5_DirectionsIndependent ==
    Called =>
        \A a \in EvalAlertSet :
            (AboveSatisfied(a) /\ BelowSatisfied(a)) =>
                /\ (Recent(a.lastNotifiedAboveAt) /\ Eligible(a.lastNotifiedBelowAt))
                      => (~Emitted(a, "above") /\ Emitted(a, "below"))
                /\ (Recent(a.lastNotifiedBelowAt) /\ Eligible(a.lastNotifiedAboveAt))
                      => (~Emitted(a, "below") /\ Emitted(a, "above"))

\* an alert with both thresholds met, above notified 1 ms short of the
\* cooldown ago and below never notified, has been evaluated
C5_Witness ==
    /\ Called
    /\ \E a \in EvalAlertSet :
          /\ AboveSatisfied(a) /\ BelowSatisfied(a)
          /\ a.lastNotifiedAboveAt = ev.now - CooldownMs + 1
          /\ a.lastNotifiedBelowAt = None
          /\ Emitted(a, "below") /\ ~Emitted(a, "above")

C8_BoundaryInclusive ==
    Called =>
        \A a \in EvalAlertSet :
            /\ (AboveSatisfied(a) /\ a.lastNotifiedAboveAt # None) =>
                  /\ Elapsed(a.lastNotifiedAboveAt) = CooldownMs => Emitted(a, "above")
                  /\ Elapsed(a.lastNotifiedAboveAt) > CooldownMs => Emitted(a, "above")
                  /\ Elapsed(a.lastNotifiedAboveAt) < CooldownMs => ~Emitted(a, "above")
            /\ (BelowSatisfied(a) /\ a.lastNotifiedBelowAt # None) =>
                  /\ Elapsed(a.lastNotifiedBelowAt) = CooldownMs => Emitted(a, "below")
                  /\ Elapsed(a.lastNotifiedBelowAt) > CooldownMs => Emitted(a, "below")
                  /\ Elapsed(a.lastNotifiedBelowAt) < CooldownMs => ~Emitted(a, "below")

\* an above direction notified exactly cooldownMinutes ago has re-triggered
\* while a below direction notified 1 ms later than that stayed silent
C8_Witness ==
    /\ Called
    /\ \E a \in EvalAlertSet :
          /\ AboveSatisfied(a) /\ BelowSatisfied(a)
          /\ Elapsed(a.lastNotifiedAboveAt) = CooldownMs /\ a.lastNotifiedAboveAt # None
          /\ Elapsed(a.lastNotifiedBelowAt) = CooldownMs - 1 /\ a.lastNotifiedBelowAt # None
          /\ Emitted(a, "above") /\ ~Emitted(a, "below")

\* ---- vocabulary of the properties about the scheduler (Spec)
AttemptsOf(c) == {cycles[c].attempts[k] : k \in 1..Len(cycles[c].attempts)}

WritesOf(c) == {cycles[c].writes[k] : k \in 1..Len(cycles[c].writes)}

\* the (alert, direction, channel) deliveries of a cycle that succeeded
Delivered(c) ==
    {[id |-> x.id, direction |-> x.direction, channel |-> x.channel] :
        x \in {y \in AttemptsOf(c) : y.ok}}

\* every instant of the model lies within one cooldown window of any other
OneWindow == MaxClock - StartClock < CooldownMs

\* c and d ran at the same time: neither began after the other had finished
Concurrent(c, d) ==
    /\ c # d
    /\ cycles[c].pc # "idle" /\ cycles[d].pc # "idle"
    /\ c \notin cycles[d].after /\ d \notin cycles[c].after

\* C1: after a cycle in which a crossing of alert A in direction D was
\* delivered on at least one channel, no later cycle that starts less than
\* cooldownMinutes after the delivery emits a crossing for (A, D).
C1_CooldownSuppressesLaterCycle ==
    OneWindow =>
        \A c1 \in CycleIds, c2 \in CycleIds :
            (cycles[c1].pc = "done" /\ c1 \in cycles[c2].after) =>
                \A x \in AttemptsOf(c1) :
                    x.ok => \A j \in 1..Len(cycles[c2].triggered) :
                                ~(/\ cycles[c2].triggered[j].alert.id = x.id
                                  /\ cycles[c2].triggered[j].direction = x.direction)

\* C2: when every configured channel's delivery fails for a crossing, notify
\* performs no cooldown write for it.
C2_NoCooldownWriteWhenAllFail ==
    channels # {} =>
        \A c \in CycleIds :
            \A w \in WritesOf(c) : \E x \in AttemptsOf(c) : x.i = w.i /\ x.ok

\* C3: at no time are two checkPrices cycles in progress simultaneously.
C3_NoOverlap ==
    \A c \in CycleIds, d \in CycleIds : (Running(c) /\ Running(d)) => c = d

\* C4: whatever the interleaving of the startup run and the cron ticks, an
\* (alert, direction) crossing is delivered at most once per channel within
\* a window of cooldownMinutes: two cycles that run at the same time never
\* both deliver it.
C4_AtMostOncePerWindow ==
    OneWindow =>
        \A c \in CycleIds, d \in CycleIds :
            Concurrent(c, d) => Delivered(c) \cap Delivered(d) = {}

\* the timestamp of a direction as the evaluator sees it on the next load
DirectionTimestamp(row, direction) ==
    IF direction = "above" THEN rowToAlert(row).lastNotifiedAboveAt
                           ELSE rowToAlert(row).lastNotifiedBelowAt

OtherDirection(direction) == IF direction = "above" THEN "below" ELSE "above"

\* C9: when at least one channel delivery succeeded for a crossing of
\* direction D on alert A, the cooldown write of notify sets the timestamp of
\* direction D of A to the current time and leaves the other direction's
\* timestamp of A and every timestamp of every other alert unchanged.
C9_RecordsThatDirectionOnly ==
    [][\A c \in CycleIds :
         LET me == cycles[c]
         IN  (/\ Len(cycles'[c].writes) = Len(me.writes) + 1
              /\ \E x \in AttemptsOf(c) : x.i = me.i /\ x.ok)
             => LET t == me.triggered[me.i]
                IN  /\ DOMAIN store' = DOMAIN store
                    /\ \A k \in DOMAIN store :
                          IF store[k].id = t.alert.id
                          THEN /\ DirectionTimestamp(store'[k], t.direction) = clock
                               /\ DirectionTimestamp(store'[k], OtherDirection(t.direction))
                                     = DirectionTimestamp(store[k], OtherDirection(t.direction))
                          ELSE store'[k] = store[k]]_vars

AttemptCount(c, j, ch) ==
    Cardinality({k \in 1..Len(cycles[c].attempts) :
                    cycles[c].attempts[k].i = j /\ cycles[c].attempts[k].channel = ch})

\* notify has got past the deliveries of crossing j
PastDeliveries(c, j) ==
    \/ j < cycles[c].i
    \/ j = cycles[c].i /\ cycles[c].pc \in {"update", "done", "rejected"}

\* C10: in notify a failed delivery on one channel never prevents the attempt
\* on the other configured channel for the same crossing and never stops the
\* remaining crossings: a crossing whose deliveries notify has got past has
\* exactly one attempt on every configured channel and none on the others,
\* and when notify returns that is every crossing of the list.
C10_EveryCrossingEveryChannelOnce ==
    \A c \in CycleIds :
        /\ \A j \in 1..Len(cycles[c].triggered), ch \in Channels :
              /\ ch \notin channels => AttemptCount(c, j, ch) = 0
              /\ AttemptCount(c, j, ch) <= 1
              /\ (ch \in channels /\ PastDeliveries(c, j)) => AttemptCount(c, j, ch) = 1
        /\ (cycles[c].pc = "done" /\ cycles[c].triggered # <<>>)
              => cycles[c].i = Len(cycles[c].triggered)

\* notify returned after two crossings with both channels configured: the
\* e-mail of the first crossing failed, and its SMS and both deliveries of
\* the second crossing were attempted all the same
C10_Witness ==
    \E c \in CycleIds :
        /\ cycles[c].pc = "done"
        /\ channels = Channels
        /\ Len(cycles[c].triggered) = 2
        /\ \E x \in AttemptsOf(c) : x.i = 1 /\ x.channel = "email" /\ ~x.ok
        /\ \A j \in 1..2, ch \in Channels : AttemptCount(c, j, ch) = 1

\* notify has made the cooldown step of crossing j
PastWrite(c, j) == j < cycles[c].i \/ cycles[c].pc = "done"

RowOf(id) == store[CHOOSE k \in DOMAIN store : store[k].id = id]

C12_FetchFailureAbortsCycle ==
    \A c \in CycleIds :
        cycles[c].upstreamError =>
            /\ cycles[c].pc \notin {"evaluate", "email", "sms", "update"}
            /\ cycles[c].triggered = <<>>
            /\ cycles[c].attempts = <<>>
            /\ cycles[c].writes = <<>>

\* C13: a store failure while loading the alerts or recording a cooldown is
\* contained by the scheduler: no invocation of checkPrices ends as an
\* unhandled rejection and the process stays alive for the next tick.
C13_StoreFailureContained ==
    /\ alive
    /\ \A c \in CycleIds : cycles[c].pc # "rejected"

\* C14: within one cycle every delivery attempt of every crossing has
\* completed or failed before the first cooldown timestamp is written.
C14_AllDeliveriesBeforeFirstWrite ==
    \A c \in CycleIds :
        cycles[c].writes # <<>> =>
            \A j \in 1..Len(cycles[c].triggered), ch \in channels : AttemptCount(c, j, ch) = 1

\* C14 as amended: within one cycle the delivery attempts of a crossing on
\* every configured channel have completed or failed before that crossing's
\* cooldown timestamp is written, and the deliveries of a crossing are
\* attempted only after the cooldown writes of the crossings before it.
C14_DeliveriesBeforeOwnWrite ==
    \A c \in CycleIds :
        /\ \A w \in WritesOf(c) : \A ch \in channels : AttemptCount(c, w.i, ch) = 1
        /\ \A x \in AttemptsOf(c) :
              \A j \in 1..(x.i - 1) : \E w \in WritesOf(c) : w.i = j

\* the first crossing's cooldown is written and the second crossing's
\* delivery has been attempted after it
C14_Witness ==
    \E c \in CycleIds :
        /\ channels # {}
        /\ Len(cycles[c].triggered) = 2
        /\ \E w \in WritesOf(c) : w.i = 1
        /\ \E x \in AttemptsOf(c) : x.i = 2

\* ---- vocabulary of the properties about fetchPrices (SpecFetch)
FetchCalled == fx.pc # "idle"
FetchReturned == fx.pc = "returned"
FetchThrew == fx.pc = "threw"

\* the call found an entry under its own key / the age of the entry it found
KeyMatches == fx.before # NoCache /\ fx.before.symbols = CacheKey(fx.symbols)
AgeAtCall == fx.at - fx.before.ts

\* C15: a call whose key equals the cached key, made when the entry is less
\* than 30 s old, returns the cached list with no upstream request, whatever
\* the order of the requested symbols, and leaves the cache as it was
C15_FreshHitServedFromCache ==
    (FetchCalled /\ KeyMatches /\ AgeAtCall < CACHE_TTL_MS) =>
        /\ FetchReturned
        /\ fx.calls = 0
        /\ fx.data = fx.before.data
        /\ cache = fx.before

\* a hit for a list given in another order than the sorted one, some time
\* after the entry was written
C15_Witness ==
    /\ FetchReturned /\ KeyMatches /\ AgeAtCall < CACHE_TTL_MS
    /\ fx.symbols # CacheKey(fx.symbols)
    /\ AgeAtCall > 0
    /\ Len(fx.data) > 0
    /\ fx.calls = 0

\* C16: a call made when the entry is 30 s old or older goes upstream even for
\* the same symbol set; when it returns, the entry holds the new data and the
\* time of the write
C16_StaleEntryRefetched ==
    (FetchCalled /\ KeyMatches /\ AgeAtCall >= CACHE_TTL_MS) =>
        /\ FetchEnded => fx.calls >= 1
        /\ FetchReturned =>
             /\ cache = [data |-> fx.data, symbols |-> CacheKey(fx.symbols), ts |-> fx.endAt]
             /\ cache.ts > fx.before.ts

\* an entry exactly 30 s old replaced by different data
C16_Witness ==
    /\ FetchReturned /\ KeyMatches /\ AgeAtCall = CACHE_TTL_MS
    /\ fx.calls >= 1
    /\ fx.data # fx.before.data
    /\ cache.data = fx.data /\ cache.ts = fx.endAt

\* C17: a call whose key differs from the cached key goes upstream whatever
\* the age of the entry; when it returns, the single entry is under the new
\* key, so the previous key is no longer served
C17_KeyChangeRefetches ==
    (FetchCalled /\ Len(fx.symbols) > 0 /\ fx.before # NoCache /\ ~KeyMatches) =>
        /\ FetchEnded => fx.calls >= 1
        /\ FetchReturned =>
             /\ cache.symbols = CacheKey(fx.symbols)
             /\ cache.symbols # fx.before.symbols
             /\ cache.data = fx.data

\* the third call of an alternation, inside the TTL of the entry it replaces
C17_Witness ==
    /\ FetchReturned /\ fx.n = MaxFetchCalls
    /\ Len(fx.symbols) > 0 /\ fx.before # NoCache /\ ~KeyMatches
    /\ AgeAtCall < CACHE_TTL_MS
    /\ fx.calls >= 1
    /\ cache.symbols = CacheKey(fx.symbols)

\* C18: fetchWithRetry makes at most 3 attempts for one call, each after a 429
\* of the one before, having waited 2 s before the second and 4 s before the
\* third; the call returns the results of the attempt that succeeded
C18_RetryAtMostTwiceWithBackoff ==
    (FetchCalled /\ fx.variant = "quote") =>
        /\ fx.calls <= retries + 1
        /\ Len(fx.waits) <= retries
        /\ \A j \in 1..Len(fx.waits) : fx.waits[j] = j * RetryUnitMs
        /\ (FetchEnded /\ fx.calls >= 1) => Len(fx.waits) = fx.calls - 1
        /\ (FetchReturned /\ fx.calls >= 1) =>
             /\ fx.data = toResults(fx.quotes)
             /\ fx.endAt - fx.at >= Len(fx.waits) * RetryUnitMs

\* two 429 answers, then a successful third attempt
C18_Witness ==
    /\ fx.variant = "quote" /\ FetchReturned
    /\ fx.calls = retries + 1
    /\ Len(fx.waits) = retries
    /\ Len(fx.data) > 0

\* C19: an upstream failure other than a rate limit ends the call at once with
\* that failure: no further request, no list returned
C19_OtherFailurePropagates ==
    ("other" \in fx.failures) => FetchThrew

\* C20: a call that met an upstream failure it did not recover from fails and
\* leaves the cache entry as it found it
C20_FailedFetchLeavesCache ==
    (fx.failures # {}) => (FetchThrew /\ cache = fx.before)

\* the same two statements for the build that goes through fetchWithRetry
QuoteVariantPropagates ==
    (fx.variant = "quote" /\ fx.failures # {}) => (FetchThrew /\ cache = fx.before)

\* the answers of upstream that carry a market price, as PriceResults
Priced(quoteArray) ==
    LET keep == SelectSeq(quoteArray, LAMBDA q : q.regularMarketPrice # None)
    IN  [k \in 1..Len(keep) |-> [symbol |-> keep[k].symbol, price |-> keep[k].regularMarketPrice]]

Unpriced(quoteArray) == {k \in 1..Len(quoteArray) : quoteArray[k].regularMarketPrice = None}

\* C21: when upstream answers without a market price for a requested symbol
\* and no request fails, fetchPrices returns, the list holds exactly the
\* answers that carry a price, in order, and fetchSinglePrice of a symbol
\* without a price is null
C21_UnpricedSymbolOmitted ==
    (FetchEnded /\ fx.calls >= 1 /\ fx.failures = {} /\ Unpriced(fx.quotes) # {}) =>
        /\ FetchReturned
        /\ fx.data = Priced(fx.quotes)
        /\ Len(fx.data) = Len(fx.quotes) - Cardinality(Unpriced(fx.quotes))
        /\ Len(fx.symbols) = 1 => fetchSinglePrice(fx.data) = None

\* two symbols asked, the first without a price, the second returned
C21_Witness ==
    /\ FetchReturned /\ fx.calls >= 1 /\ fx.failures = {}
    /\ Len(fx.quotes) = 2 /\ Len(fx.data) = 1
    /\ fx.quotes[1].regularMarketPrice = None
    /\ fx.data[1].symbol = fx.quotes[2].symbol
    /\ fx.quotes[1].symbol # fx.quotes[2].symbol

\* fetchSinglePrice of a symbol upstream has no price for
C21_WitnessSingle ==
    /\ FetchReturned /\ fx.calls >= 1 /\ Len(fx.symbols) = 1
    /\ Unpriced(fx.quotes) # {}
    /\ fetchSinglePrice(fx.data) = None

\* ---- the cycle and the store
\* C22: the step of a cycle that loads zero enabled alerts ends the cycle:
\* nothing is fetched, evaluated or sent, and the cache and the store stay
\* as they are
C22_ZeroAlertsEndsCycle ==
    [][\A c \in CycleIds :
          (/\ cycles[c].pc = "load"
           /\ cycles'[c].pc \notin {"load", "rejected"}
           /\ \A k \in 1..Len(store) : ~store[k].enabled)
          => /\ cycles'[c] = [cycles[c] EXCEPT !.pc = "done"]
             /\ cache' = cache
             /\ store' = store]_vars

\* a cycle over a store whose alerts are all disabled has ended untouched
C22_Witness ==
    \E c \in CycleIds :
        /\ cycles[c].pc = "done"
        /\ cycles[c].alerts = <<>> /\ cycles[c].symbols = <<>>
        /\ cycles[c].k = 0 /\ cycles[c].attempts = <<>> /\ cycles[c].writes = <<>>
        /\ Len(store) > 0
        /\ \A k \in 1..Len(store) : ~store[k].enabled

IdsOf(list) == {list[k].id : k \in 1..Len(list)}

\* an alert of the store would cross at the price upstream reports
WouldCross(row) ==
    \/ row.abovePrice # None /\ market[row.symbol] >= row.abovePrice
    \/ row.belowPrice # None /\ market[row.symbol] <= row.belowPrice

\* C23: an alert that is disabled is in no cycle's alert list, crossing list,
\* delivery attempts or cooldown writes, and its timestamp is never written
C23_DisabledNeverEvaluated ==
    \A k \in 1..Len(store) : ~store[k].enabled =>
        /\ store[k].lastNotifiedAt = None
        /\ \A c \in CycleIds :
             /\ store[k].id \notin IdsOf(cycles[c].alerts)
             /\ \A j \in 1..Len(cycles[c].triggered) :
                  cycles[c].triggered[j].alert.id # store[k].id
             /\ store[k].id \notin IdsOf(cycles[c].attempts)
             /\ store[k].id \notin IdsOf(cycles[c].writes)

\* a cycle has notified and recorded another alert while a disabled alert's
\* threshold was crossed on a symbol the cycle fetched
C23_Witness ==
    \E k \in 1..Len(store), c \in CycleIds :
        /\ ~store[k].enabled /\ WouldCross(store[k])
        /\ cycles[c].pc = "done"
        /\ \E j \in 1..Len(cycles[c].prices) : cycles[c].prices[j].symbol = store[k].symbol
        /\ cycles[c].attempts # <<>> /\ cycles[c].writes # <<>>

\* C24: the symbol list a cycle goes to fetchPrices with holds every symbol of
\* the alerts enabled in the store at that moment, each once, and nothing else
C24_SymbolsOfEnabledAlertsOnce ==
    [][\A c \in CycleIds :
          (cycles[c].pc = "load" /\ cycles'[c].pc \in {"upstream", "evaluate"}) =>
             LET symbols == cycles'[c].symbols
             IN  /\ \A i, j \in 1..Len(symbols) : symbols[i] = symbols[j] => i = j
                 /\ {symbols[k] : k \in 1..Len(symbols)} =
                    {store[k].symbol : k \in {n \in 1..Len(store) : store[n].enabled}}]_vars

\* after an edit of the store the second cycle asks for a symbol the first
\* did not ask for
C24_Witness ==
    /\ edits > 0
    /\ cycles[0].symbols # <<>> /\ cycles[1].symbols # <<>>
    /\ {cycles[0].symbols[k] : k \in 1..Len(cycles[0].symbols)} #
       {cycles[1].symbols[k] : k \in 1..Len(cycles[1].symbols)}
    /\ Len(cycles[1].symbols) > Len(cycles[0].symbols)

\* C25: the crossing list of a cycle holds at most one entry per alert id and
\* direction, and a configured channel gets at most one delivery attempt per
\* entry
C25_OneEntryOneAttempt ==
    \A c \in CycleIds :
        LET triggered == cycles[c].triggered
            attempts == cycles[c].attempts
        IN  /\ \A i, j \in 1..Len(triggered) :
                 (/\ triggered[i].alert.id = triggered[j].alert.id
                  /\ triggered[i].direction = triggered[j].direction) => i = j
            /\ \A i, j \in 1..Len(attempts) :
                 (/\ attempts[i].i = attempts[j].i
                  /\ attempts[i].channel = attempts[j].channel) => i = j
            /\ \A i \in 1..Len(attempts) :
                 /\ attempts[i].channel \in channels
                 /\ attempts[i].i \in 1..Len(triggered)
                 /\ attempts[i].id = triggered[attempts[i].i].alert.id
                 /\ attempts[i].direction = triggered[attempts[i].i].direction

\* one alert crossing in both directions, each entry tried once on each of
\* the two channels
C25_Witness ==
    \E c \in CycleIds :
        /\ cycles[c].pc = "done"
        /\ channels = Channels
        /\ Len(cycles[c].triggered) = Cardinality(Directions)
        /\ cycles[c].triggered[1].alert.id = cycles[c].triggered[2].alert.id
        /\ Len(cycles[c].attempts) = Cardinality(Directions) * Cardinality(Channels)

\* C26: the evaluation step of a cycle leaves the alert list and the price
\* list it was given as they are, and no step of a cycle changes the stored
\* alerts in anything but last_notified_at: the rows, their ids, symbols,
\* thresholds and enabled flags stay
C26_OnlyCooldownTimestampsChange ==
    [][/\ Len(store') = Len(store)
       /\ \A k \in 1..Len(store) :
            store'[k] = [store[k] EXCEPT !.lastNotifiedAt = store'[k].lastNotifiedAt]
       /\ \A c \in CycleIds :
            (cycles[c].pc = "evaluate" /\ cycles'[c].pc # "evaluate") =>
               /\ cycles'[c].alerts = cycles[c].alerts
               /\ cycles'[c].prices = cycles[c].prices
               /\ store' = store]_vars

\* a cycle has evaluated, notified and written a cooldown timestamp
C26_Witness ==
    \E c \in CycleIds :
        /\ cycles[c].pc = "done"
        /\ cycles[c].triggered # <<>> /\ cycles[c].writes # <<>>
        /\ \E k \in 1..Len(store) : store[k].lastNotifiedAt # None

\* C27: evaluateAlerts emits nothing for an alert whose symbol has no sample
\* in the price list; an empty price list or an empty alert list gives an
\* empty result
C27_NoSampleNoCrossing ==
    Called =>
        /\ \A j \in 1..Len(ev.result) : HasSample(ev.result[j].alert.symbol)
        /\ ev.prices = <<>> => ev.result = <<>>
        /\ ev.alerts = <<>> => ev.result = <<>>

\* a never-notified alert with both thresholds and no sample of its symbol,
\* next to an alert that is emitted
C27_Witness ==
    /\ Called
    /\ ev.result # <<>>
    /\ \E a \in EvalAlertSet :
         /\ ~HasSample(a.symbol)
         /\ a.abovePrice # None /\ a.belowPrice # None
         /\ a.lastNotifiedAboveAt = None /\ a.lastNotifiedBelowAt = None
         /\ ~Emitted(a, "above") /\ ~Emitted(a, "below")

\* ---- vocabulary of the properties about the HTTP API (SpecApi)
\* this step is the handling of one request
Handled == api'.n = api.n + 1

AlertAndPriceRoutes ==
    {"listAlerts", "postAlert", "deleteAlert", "setEnabled", "thresholds", "prices", "price"}

\* C28: every stored alert has abovePrice or belowPrice set, and a create or
\* threshold-update request of a logged-in client that gives neither is
\* answered 400 and changes neither the store nor anything else
C28_AtLeastOneThreshold ==
    /\ [](\A k \in 1..Len(store) : store[k].abovePrice # None \/ store[k].belowPrice # None)
    /\ [][(/\ Handled
           /\ api'.last.route \in {"postAlert", "thresholds"}
           /\ api.session[api'.last.client] # NoUser
           /\ api'.last.body = <<None, None>>)
          => /\ api'.last.status = 400
             /\ store' = store
             /\ cache' = cache
             /\ api'.users = api.users /\ api'.session = api.session]_vars

\* the owner of a stored alert has asked for a threshold update with neither
\* threshold and got 400
C28_Witness ==
    /\ api.last.route = "thresholds" /\ api.last.status = 400
    /\ api.last.body = <<None, None>>
    /\ \E k \in 1..Len(store) : store[k].userId = api.session[api.last.client]

C30_NoCaseInsensitiveDuplicate ==
    \A j, k \in 1..Len(api.users) :
        LOWER(api.users[j].username) = LOWER(api.users[k].username) => j = k

\* ---- evaluateAlerts and a price list with repeated symbols (SpecEval)
\* the positions of the samples of a symbol in the price list
SamplesOf(sym) == {k \in 1..Len(ev.prices) : ev.prices[k].symbol = sym}

LastSample(sym) == ev.prices[CHOOSE k \in SamplesOf(sym) : \A j \in SamplesOf(sym) : j <= k]

\* C37: with several samples of one symbol in the price list, evaluateAlerts
\* goes by the last of them for every alert on that symbol: each crossing it
\* emits carries that sample's price and is a crossing at that price, and a
\* threshold the last sample reaches is emitted unless it is in cooldown
C37_LastSampleWins ==
    Called =>
        /\ \A j \in 1..Len(ev.result) :
             LET t == ev.result[j]
                 p == LastSample(t.alert.symbol).price
             IN  /\ t.currentPrice = p
                 /\ t.direction = "above" => p >= t.alert.abovePrice
                 /\ t.direction = "below" => p <= t.alert.belowPrice
        /\ \A a \in EvalAlertSet :
             SamplesOf(a.symbol) # {} =>
                /\ (/\ a.abovePrice # None /\ a.lastNotifiedAboveAt = None
                    /\ LastSample(a.symbol).price >= a.abovePrice) => Emitted(a, "above")
                /\ (/\ a.belowPrice # None /\ a.lastNotifiedBelowAt = None
                    /\ LastSample(a.symbol).price <= a.belowPrice) => Emitted(a, "below")

\* two samples of one symbol, the first under the threshold and the last
\* over it: an above crossing is emitted at the last price, no below crossing
C37_Witness ==
    /\ Called
    /\ \E a \in EvalAlertSet :
         /\ Cardinality(SamplesOf(a.symbol)) = 2
         /\ ev.prices[1].price < Threshold /\ ev.prices[2].price > Threshold
         /\ a.abovePrice = Threshold /\ a.belowPrice = Threshold
         /\ a.lastNotifiedAboveAt = None /\ a.lastNotifiedBelowAt = None
         /\ Emitted(a, "above") /\ ~Emitted(a, "below")

\* ---- a failed cooldown write inside notify (Spec)
\* C35: when the cooldown write of a crossing fails, notify ends there: the
\* step records nothing and changes no row, the invocation never acts again,
\* so no delivery is attempted for a later crossing of its list, and the rows
\* written for its earlier crossings keep their timestamp
C35_CooldownWriteFailureEndsNotify ==
    /\ [](\A c \in CycleIds :
            cycles[c].pc = "rejected" =>
               /\ \A a \in AttemptsOf(c) : a.i <= cycles[c].i
               /\ \A w \in WritesOf(c) : w.i < cycles[c].i /\ RowOf(w.id).lastNotifiedAt # None)
    /\ [][\A c \in CycleIds :
            /\ (/\ cycles[c].pc = "update"
                /\ cycles'[c] # cycles[c]
                /\ cycles'[c].writes = cycles[c].writes)
               => cycles'[c].pc = "rejected" /\ store' = store
            /\ cycles[c].pc = "rejected" => cycles'[c] = cycles[c]]_vars

\* the write of the first of two crossings failed after a delivery attempt:
\* the second crossing has no attempt and no write
C35_Witness ==
    \E c \in CycleIds :
        /\ cycles[c].pc = "rejected"
        /\ Len(cycles[c].triggered) = 2 /\ cycles[c].i = 1
        /\ AttemptsOf(c) # {} /\ WritesOf(c) = {}

\* the write of the second crossing failed: the first one's timestamp stays
C35_WitnessEarlierKept ==
    \E c \in CycleIds :
        /\ cycles[c].pc = "rejected"
        /\ Len(cycles[c].triggered) = 2 /\ cycles[c].i = 2
        /\ \E w \in WritesOf(c) : w.i = 1 /\ RowOf(w.id).lastNotifiedAt # None

\* ---- a crossing whose deliveries failed in the cycles before (Spec)
\* cycle c has evaluated the alerts it loaded
Evaluated(c) == cycles[c].pc \in {"email", "sms", "update", "done", "rejected"}

\* the price fetched in cycle c reaches the threshold of alert a in direction
\* `direction`
CrossedIn(c, a, direction) ==
    \E k \in 1..Len(cycles[c].prices) :
        /\ cycles[c].prices[k].symbol = a.symbol
        /\ IF direction = "above"
           THEN a.abovePrice # None /\ cycles[c].prices[k].price >= a.abovePrice
           ELSE a.belowPrice # None /\ cycles[c].prices[k].price <= a.belowPrice

EmittedIn(c, id, direction) ==
    \E j \in 1..Len(cycles[c].triggered) :
        /\ cycles[c].triggered[j].alert.id = id
        /\ cycles[c].triggered[j].direction = direction

\* every delivery of (id, direction) attempted in the cycles that ended
\* before c began has failed
NeverCommunicatedBefore(c, id, direction) ==
    \A d \in cycles[c].after :
        \A x \in AttemptsOf(d) : (x.id = id /\ x.direction = direction) => ~x.ok

NotifyPcs == {"email", "sms", "update"}

\* where an invocation suspended at pc may be after its next step
PhaseSuccessors(pc) ==
    CASE pc = "idle" -> {"load"}
      [] pc = "load" -> {"done", "upstream", "evaluate", "rejected"}
      [] pc = "upstream" -> {"upstream", "evaluate"}
      [] pc = "evaluate" -> {"done"} \cup NotifyPcs
      [] pc = "email" -> {"sms", "update"}
      [] pc = "sms" -> {"update"}
      [] pc = "update" -> NotifyPcs \cup {"done", "rejected"}
      [] OTHER -> {}

C33_EveryCycleEnds ==
    \A c \in CycleIds : (cycles[c].pc # "idle") ~> Finished(c)

\* as long as the process lives an invocation needs no step of another one to
\* get to its end: it ends, or the process has been terminated
CycleEndsWhileAlive ==
    \A c \in CycleIds : (cycles[c].pc # "idle") ~> (Finished(c) \/ ~alive)

\* ---- the functions of db.ts that take the owner's id (SpecDb)
OwnerChecked == {"removeAlert", "setAlertEnabled", "updateAlertNotes", "updateAlertThresholds"}

\* the alert the last call named exists and belongs to another user
WrongOwner ==
    \E k \in 1..Len(dbc.before) :
        dbc.before[k].id = dbc.id /\ dbc.before[k].userId # dbc.userId

\* C31: removeAlert, setAlertEnabled, updateAlertNotes and
\* updateAlertThresholds called with the id of a user who does not own the
\* alert return false and leave every row of the table as it was
C31_WrongOwnerChangesNothing ==
    (dbc.op \in OwnerChecked /\ WrongOwner) =>
        /\ dbc.result = FALSE
        /\ store = dbc.before

\* a user has called updateAlertNotes on the other user's alert, whose notes
\* differ from the ones given
C31_Witness ==
    /\ dbc.op = "updateAlertNotes" /\ WrongOwner
    /\ \E k \in 1..Len(store) : store[k].id = dbc.id /\ store[k].notes # dbc.args[1]
    /\ dbc.result = FALSE

\* C40: updateAlertThresholds on the owner's alert sets both thresholds to
\* the values given, an omitted one to null, and leaves the alert's cooldown
\* timestamp, enabled flag, symbol and notes, and every other alert, as they
\* were: a direction reads as in cooldown after the call exactly when it did
\* before
C40_ThresholdsOverwrittenRestKept ==
    (dbc.op = "updateAlertThresholds" /\ dbc.result) =>
        /\ Len(store) = Len(dbc.before)
        /\ \A k \in 1..Len(store) :
              LET old == dbc.before[k]
                  new == store[k]
              IN  IF old.id = dbc.id
                  THEN /\ new.abovePrice = dbc.args[1]
                       /\ new.belowPrice = dbc.args[2]
                       /\ new.lastNotifiedAt = old.lastNotifiedAt
                       /\ new.enabled = old.enabled
                       /\ new.symbol = old.symbol
                       /\ new.notes = old.notes
                       /\ new.id = old.id /\ new.userId = old.userId
                       /\ \A direction \in Directions :
                             isInCooldown(rowToAlert(new), direction, cooldownMinutes, clock)
                                = isInCooldown(rowToAlert(old), direction, cooldownMinutes, clock)
                  ELSE new = old

\* the owner gave a new below threshold only, for an alert with both
\* thresholds, notes and a cooldown timestamp: the above threshold is gone,
\* timestamp and notes are there
C40_Witness ==
    /\ dbc.op = "updateAlertThresholds" /\ dbc.result
    /\ dbc.args[1] = None /\ dbc.args[2] # None
    /\ \E k \in 1..Len(store) :
         /\ store[k].id = dbc.id
         /\ dbc.before[k].abovePrice # None
         /\ store[k].abovePrice = None /\ store[k].belowPrice = dbc.args[2]
         /\ store[k].lastNotifiedAt # None
         /\ store[k].notes # NullNotes

\* ---- the limiter of the auth routes (SpecLimit)
\* the address has a window that has not ended
WindowOpen(c) == loginAttempts[c] # NoEntry /\ clock < loginAttempts[c].resetAt

\* C39: per address at most RATE_LIMIT_MAX register or login requests are
\* let through in one window of RATE_LIMIT_WINDOW_MS.  A request in an open
\* window that is full is answered 429 before the handler, with the counter
\* and the window's end as they were; a request in an open window that is
\* not full is counted in it; a request with no window, or at or after the
\* window's end, is let through and starts a window of its own at count 1.
\* The entry of another address is never touched.
C39_TenPerWindow ==
    /\ [](\A c \in Clients : loginAttempts[c].count <= RATE_LIMIT_MAX)
    /\ [][(Handled /\ api'.last.route \in {"register", "login"}) =>
            LET c == api'.last.client
                entry == loginAttempts[c]
            IN  /\ \A d \in Clients \ {c} : loginAttempts'[d] = loginAttempts[d]
                /\ IF WindowOpen(c) /\ entry.count >= RATE_LIMIT_MAX
                   THEN /\ api'.last.status = 429
                        /\ api'.last.queries = 0
                        /\ loginAttempts' = loginAttempts
                        /\ api'.users = api.users /\ api'.session = api.session
                   ELSE /\ api'.last.status # 429
                        /\ loginAttempts'[c] =
                              IF WindowOpen(c)
                              THEN [count |-> entry.count + 1, resetAt |-> entry.resetAt]
                              ELSE [count |-> 1, resetAt |-> clock + RATE_LIMIT_WINDOW_MS]]_vars

\* one address has sent every request: ten were let through and one refused
\* in the first window, and the one sent at the very end of that window was
\* let through as the first of a new window
C39_Witness ==
    /\ api.n = RATE_LIMIT_MAX + 2
    /\ clock = StartClock + RATE_LIMIT_WINDOW_MS
    /\ api.last.status # 429
    /\ loginAttempts[api.last.client] =
          [count |-> 1, resetAt |-> clock + RATE_LIMIT_WINDOW_MS]
    /\ \A d \in Clients \ {api.last.client} : loginAttempts[d] = NoEntry

\* a request has been refused
C39_WitnessRefused ==
    /\ api.last.status = 429
    /\ loginAttempts[api.last.client].count = RATE_LIMIT_MAX

\* ---- the cache under a cycle and a request at once (SpecShared)
KeySymbols(entry) == {entry.symbols[k] : k \in 1..Len(entry.symbols)}

\* cycle c ends its upstream loop in this step
CycleFetchEnds(c) == cycles[c].pc = "upstream" /\ cycles'[c].pc = "evaluate"

\* the request's call ends its upstream loop in this step
RequestFetchEnds == fx.pc = "upstream" /\ fx'.pc = "returned"

\* C36: whatever way the calls of fetchPrices of the cycles and of a request
\* interleave, the cache entry is replaced only by a call that ends, as a
\* whole, with the list that call built from all of its own requests and the
\* key of its own symbols; a step of one call changes no other call's list.
\* So the samples of the entry are of symbols of its key and all were quoted
\* to one call.
C36_EntryIsOneCallsResult ==
    /\ [](cache # NoCache =>
            /\ \A k \in 1..Len(cache.data) : cache.data[k].symbol \in KeySymbols(cache)
            /\ \/ \A k \in 1..Len(cache.data) : cache.data[k].price = Threshold
               \/ \A k \in 1..Len(cache.data) : cache.data[k].price = Threshold + 1)
    /\ [][/\ (cache' # cache) =>
              \/ \E c \in CycleIds :
                    /\ CycleFetchEnds(c)
                    /\ cycles'[c].k = Len(cycles[c].symbols)
                    /\ cache' = [data |-> cycles'[c].results,
                                 symbols |-> sort(cycles[c].symbols), ts |-> clock]
              \/ /\ RequestFetchEnds
                 /\ fx'.k = Len(fx.symbols)
                 /\ cache' = [data |-> fx'.results, symbols |-> sort(fx.symbols), ts |-> clock]
          /\ \A c \in CycleIds :
                (fx' # fx /\ cycles[c].pc = "upstream") => cycles'[c] = cycles[c]
          /\ (fx.pc = "upstream" /\ cycles' # cycles) => fx' = fx]_vars

\* a cycle has replaced the entry while the request's call, begun on an
\* empty cache for two symbols, holds the sample of its first symbol
C36_Witness ==
    \E c \in CycleIds :
        /\ cycles[c].pc = "evaluate" /\ cycles[c].k = 1
        /\ fx.pc = "upstream" /\ fx.k = 1 /\ Len(fx.results) = 1
        /\ fx.before = NoCache
        /\ cache.data = cycles[c].results /\ cache.symbols = <<"AAPL">>
        /\ Len(cache.data) = 1

\* C38: a list fetchPrices returns, to a cycle or to a request, is either the
\* data of the entry found at the call, with the call's key and stored less
\* than CACHE_TTL_MS before the call, or the list the call built from its own
\* upstream requests and stored under the time of its return
C38_ReturnedListIsFresh ==
    [][/\ \A c \in CycleIds :
            /\ (cycles[c].pc = "load" /\ cycles'[c].pc = "evaluate") =>
                  /\ cache # NoCache
                  /\ cache.symbols = sort(cycles'[c].symbols)
                  /\ cache.ts <= clock /\ clock - cache.ts < CACHE_TTL_MS
                  /\ cycles'[c].prices = cache.data
            /\ CycleFetchEnds(c) =>
                  /\ cycles'[c].prices = cycles'[c].results
                  /\ cycles'[c].k = Len(cycles[c].symbols)
                  /\ cache'.data = cycles'[c].prices /\ cache'.ts = clock
       /\ (fx.pc # "upstream" /\ fx'.pc = "returned" /\ fx' # fx) =>
             /\ cache # NoCache
             /\ cache.symbols = sort(fx'.symbols)
             /\ cache.ts <= clock /\ clock - cache.ts < CACHE_TTL_MS
             /\ fx'.data = cache.data
       /\ RequestFetchEnds =>
             /\ fx'.data = fx'.results
             /\ fx'.k = Len(fx.symbols)
             /\ cache'.data = fx'.data /\ cache'.ts = clock]_vars

\* a cycle has ended that made no upstream request of its own: it evaluated
\* the list fetched for the request before, which carries the price quoted
\* to the request, and found the crossing in it
C38_Witness ==
    \E c \in CycleIds :
        /\ cycles[c].pc = "done" /\ cycles[c].k = 0
        /\ fx.pc = "returned" /\ fx.symbols = <<"AAPL">> /\ fx.calls = 1
        /\ cycles[c].prices = fx.data
        /\ Len(cycles[c].prices) = 1 /\ cycles[c].prices[1].price = Threshold + 1
        /\ Len(cycles[c].triggered) = 1

====
